---- MODULE Spec2Model ----
(***************************************************************************)
(* The incremental response streaming pipeline of ferrous-llm: the         *)
(* chat_stream producer tasks of the OpenAI (SSE-plain), Anthropic         *)
(* (SSE-typed) and Ollama (NDJSON) providers, the bounded tokio mpsc       *)
(* channel they push to, and the consumer that polls the ReceiverStream.   *)
(*                                                                         *)
(* Bytes are the integers 0..255, text is a sequence of Unicode code       *)
(* points.  A line's bytes are decoded as String::from_utf8_lossy decodes  *)
(* them, trimmed as str::trim trims them, and a payload is parsed by a     *)
(* JSON parser and deserialised against the serde schema of the provider's *)
(* stream-chunk type.                                                      *)
(***************************************************************************)
EXTENDS Integers, Sequences, FiniteSets, TLC

(***************************************************************************)
(* Text: UTF-8 decoding, trimming, prefixes                                *)
(***************************************************************************)

\* U+FFFD REPLACEMENT CHARACTER, what from_utf8_lossy puts for invalid bytes
ReplacementChar == 65533

SafeGet(b, i) == IF i >= 1 /\ i <= Len(b) THEN b[i] ELSE 0

IsCont(x) == x >= 128 /\ x <= 191

\* core::str::utf8_char_width
Utf8CharWidth(x) ==
    IF x < 128 THEN 1
    ELSE IF x < 194 THEN 0
    ELSE IF x < 224 THEN 2
    ELSE IF x < 240 THEN 3
    ELSE IF x < 245 THEN 4
    ELSE 0

\* the second byte of a three-byte sequence, by its first byte
Second3(x, y) ==
    \/ x = 224 /\ y >= 160 /\ y <= 191
    \/ x >= 225 /\ x <= 236 /\ IsCont(y)
    \/ x = 237 /\ y >= 128 /\ y <= 159
    \/ x >= 238 /\ x <= 239 /\ IsCont(y)

\* the second byte of a four-byte sequence, by its first byte
Second4(x, y) ==
    \/ x = 240 /\ y >= 144 /\ y <= 191
    \/ x >= 241 /\ x <= 243 /\ IsCont(y)
    \/ x = 244 /\ y >= 128 /\ y <= 143

\* One step of Utf8Chunks at byte i: the code point it yields and the number
\* of bytes it consumes.  An invalid or truncated sequence yields one U+FFFD
\* for its maximal invalid prefix.
Utf8Step(b, i) ==
    LET x == b[i]
        w == Utf8CharWidth(x)
        y == SafeGet(b, i + 1)
        z == SafeGet(b, i + 2)
        u == SafeGet(b, i + 3)
        bad(n) == [ch |-> ReplacementChar, n |-> n]
    IN  IF w = 1 THEN [ch |-> x, n |-> 1]
        ELSE IF w = 2 THEN
            IF IsCont(y) THEN [ch |-> (x - 192) * 64 + (y - 128), n |-> 2]
            ELSE bad(1)
        ELSE IF w = 3 THEN
            IF ~Second3(x, y) THEN bad(1)
            ELSE IF ~IsCont(z) THEN bad(2)
            ELSE [ch |-> (x - 224) * 4096 + (y - 128) * 64 + (z - 128), n |-> 3]
        ELSE IF w = 4 THEN
            IF ~Second4(x, y) THEN bad(1)
            ELSE IF ~IsCont(z) THEN bad(2)
            ELSE IF ~IsCont(u) THEN bad(3)
            ELSE [ch |-> (x - 240) * 262144 + (y - 128) * 4096
                            + (z - 128) * 64 + (u - 128),
                  n |-> 4]
        ELSE bad(1)

\* Whether the decoder takes a step at byte i.  A step consumes, after its
\* first byte, continuation bytes only; so a byte that is no continuation
\* byte always starts a step, and a continuation byte starts one unless the
\* step of the nearest byte before it that is no continuation byte, at most
\* three back, reaches it.
Utf8Start(b, i) ==
    \/ ~IsCont(b[i])
    \/ ~\E d \in 1..3 :
            /\ i - d >= 1
            /\ ~IsCont(b[i - d])
            /\ \A e \in 1..(d - 1) : IsCont(b[i - e])
            /\ Utf8Step(b, i - d).n > d

\* the code points of the steps that start in lo..hi, in order
RECURSIVE Utf8Range(_, _, _)
Utf8Range(b, lo, hi) ==
    IF lo > hi THEN <<>>
    ELSE IF lo = hi THEN
        IF Utf8Start(b, lo) THEN <<Utf8Step(b, lo).ch>> ELSE <<>>
    ELSE LET mid == (lo + hi) \div 2
         IN  Utf8Range(b, lo, mid) \o Utf8Range(b, mid + 1, hi)

\* String::from_utf8_lossy
FromUtf8Lossy(b) == Utf8Range(b, 1, Len(b))

\* char::is_whitespace (the White_Space property)
IsWhitespace(c) ==
    \/ c >= 9 /\ c <= 13
    \/ c = 32
    \/ c = 133
    \/ c = 160
    \/ c = 5760
    \/ c >= 8192 /\ c <= 8202
    \/ c \in {8232, 8233, 8239, 8287, 12288}

\* str::trim: from the first to the last character that is no whitespace
Trim(s) ==
    LET n == Len(s)
        first == CHOOSE i \in 1..n :
                    ~IsWhitespace(s[i]) /\ \A j \in 1..(i - 1) : IsWhitespace(s[j])
        last == CHOOSE i \in 1..n :
                    ~IsWhitespace(s[i]) /\ \A j \in (i + 1)..n : IsWhitespace(s[j])
    IN  IF \A i \in 1..n : IsWhitespace(s[i]) THEN <<>> ELSE SubSeq(s, first, last)

\* str::starts_with
StartsWith(s, p) == Len(s) >= Len(p) /\ SubSeq(s, 1, Len(p)) = p

\* the rest of s after the prefix p (line[6..], strip_prefix)
AfterPrefix(s, p) == SubSeq(s, Len(p) + 1, Len(s))

(***************************************************************************)
(* JSON: the grammar serde_json::from_str accepts, over code points        *)
(***************************************************************************)

\* A JSON value is one of
\*   [t |-> "null"]                      [t |-> "bool", b |-> BOOLEAN]
\*   [t |-> "num", int, neg, digits]     [t |-> "str", s |-> text]
\*   [t |-> "arr", a |-> values]         [t |-> "obj", o |-> <<key, value>> pairs]
\* A number keeps its integer digits (no leading zero) instead of its value;
\* int is FALSE for a number with a fraction or an exponent, and for -0.
Fail == [ok |-> FALSE]

Parsed(v, p) == [ok |-> TRUE, v |-> v, p |-> p]

IsJsonWs(c) == c \in {32, 9, 10, 13}

IsDigit(c) == c >= 48 /\ c <= 57

\* the index after the run of whitespace that starts at i
SkipWs(s, i) ==
    IF \A j \in i..Len(s) : IsJsonWs(s[j]) THEN Len(s) + 1
    ELSE CHOOSE j \in i..Len(s) :
            ~IsJsonWs(s[j]) /\ \A k \in i..(j - 1) : IsJsonWs(s[k])

\* the index after the run of digits that starts at i
DigitsEnd(s, i) ==
    IF \A j \in i..Len(s) : IsDigit(s[j]) THEN Len(s) + 1
    ELSE CHOOSE j \in i..Len(s) :
            ~IsDigit(s[j]) /\ \A k \in i..(j - 1) : IsDigit(s[k])

HexVal(c) ==
    IF c >= 48 /\ c <= 57 THEN c - 48
    ELSE IF c >= 65 /\ c <= 70 THEN c - 55
    ELSE IF c >= 97 /\ c <= 102 THEN c - 87
    ELSE -1

\* the value of the four hex digits at i..i+3, or -1
Hex4(s, i) ==
    LET h(k) == HexVal(SafeGet(s, i + k))
    IN  IF h(0) < 0 \/ h(1) < 0 \/ h(2) < 0 \/ h(3) < 0 THEN -1
        ELSE h(0) * 4096 + h(1) * 256 + h(2) * 16 + h(3)

\* the character a one-letter escape stands for, or -1
SimpleEscape(e) ==
    IF e \in {34, 92, 47} THEN e
    ELSE IF e = 98 THEN 8
    ELSE IF e = 102 THEN 12
    ELSE IF e = 110 THEN 10
    ELSE IF e = 114 THEN 13
    ELSE IF e = 116 THEN 9
    ELSE -1

\* a character that stands for itself in a string: no quote, no backslash,
\* no control character
IsPlain(c) == c >= 32 /\ c # 34 /\ c # 92

\* the index after the run of plain characters that starts at i
PlainEnd(s, i) ==
    IF \A j \in i..Len(s) : IsPlain(s[j]) THEN Len(s) + 1
    ELSE CHOOSE j \in i..Len(s) :
            ~IsPlain(s[j]) /\ \A k \in i..(j - 1) : IsPlain(s[k])

\* a \uXXXX escape at i, n1 its value and n2 the value of the \uXXXX that
\* may follow it: a code point of the basic plane, or a surrogate pair
RECURSIVE StrBody(_, _, _)
StrUnicode(s, i, acc, n1, n2) ==
    IF n1 < 0 THEN Fail
    ELSE IF n1 >= 56320 /\ n1 <= 57343 THEN Fail
    ELSE IF n1 < 55296 \/ n1 > 57343 THEN StrBody(s, i + 6, Append(acc, n1))
    ELSE IF /\ SafeGet(s, i + 6) = 92
            /\ SafeGet(s, i + 7) = 117
            /\ n2 >= 56320 /\ n2 <= 57343
        THEN StrBody(s, i + 12, Append(acc, 65536 + (n1 - 55296) * 1024 + (n2 - 56320)))
    ELSE Fail

\* The body of a string from i (after the opening quote) to its closing
\* quote: runs of plain characters and escapes.
StrBody(s, i, acc) ==
    IF i > Len(s) THEN Fail
    ELSE
        LET c == s[i]
            e == SafeGet(s, i + 1)
            q == PlainEnd(s, i)
        IN  IF c = 34 THEN Parsed([t |-> "str", s |-> acc], i + 1)
            ELSE IF c < 32 THEN Fail
            ELSE IF c # 92 THEN StrBody(s, q, acc \o SubSeq(s, i, q - 1))
            ELSE IF SimpleEscape(e) >= 0
                THEN StrBody(s, i + 2, Append(acc, SimpleEscape(e)))
            ELSE IF e # 117 THEN Fail
            ELSE StrUnicode(s, i, acc, Hex4(s, i + 2), Hex4(s, i + 8))

ParseString(s, i) == IF SafeGet(s, i) = 34 THEN StrBody(s, i + 1, <<>>) ELSE Fail

\* serde_json's ignore_str, the string of a value that is skipped: the index
\* after its closing quote, 0 for none.  Of a \u escape only the four hex
\* digits are looked at; control characters and other escapes are as in a
\* string that is parsed.
RECURSIVE IgnoreStrBody(_, _)
IgnoreStrBody(s, i) ==
    IF i > Len(s) THEN 0
    ELSE IF s[i] = 34 THEN i + 1
    ELSE IF s[i] < 32 THEN 0
    ELSE IF s[i] # 92 THEN IgnoreStrBody(s, PlainEnd(s, i))
    ELSE IF SimpleEscape(SafeGet(s, i + 1)) >= 0 THEN IgnoreStrBody(s, i + 2)
    ELSE IF SafeGet(s, i + 1) = 117 /\ Hex4(s, i + 2) >= 0 THEN IgnoreStrBody(s, i + 6)
    ELSE 0

IgnoreStr(s, i) == IF SafeGet(s, i) = 34 THEN IgnoreStrBody(s, i + 1) ELSE 0

\* the index after the integer part that starts at j: a single 0, or digits
IntEnd(s, j) == IF SafeGet(s, j) = 48 THEN j + 1 ELSE DigitsEnd(s, j)

\* the index after the fraction that may start at k
FracEnd(s, k) == IF SafeGet(s, k) = 46 THEN DigitsEnd(s, k + 1) ELSE k

\* the index of the first digit of the exponent that starts at f
ExpDigits(s, f) == IF SafeGet(s, f + 1) \in {43, 45} THEN f + 2 ELSE f + 1

\* the index after the exponent that may start at f
ExpEnd(s, f) ==
    IF SafeGet(s, f) \in {101, 69} THEN DigitsEnd(s, ExpDigits(s, f)) ELSE f

\* the grammar of a number whose integer part is s[j..k-1], whose fraction
\* ends before f and whose exponent ends before x: an integer part with no
\* leading zero, digits behind "." and behind "e"
NumberGrammar(s, j, k, f, x) ==
    /\ k # j
    /\ ~(SafeGet(s, j) = 48 /\ IsDigit(SafeGet(s, k)))
    /\ ~(SafeGet(s, k) = 46 /\ f = k + 1)
    /\ ~(SafeGet(s, f) \in {101, 69} /\ x = ExpDigits(s, f))

\* the number of zeros the digits d begin with
LeadingZeros(d) ==
    IF \A i \in 1..Len(d) : d[i] = 48 THEN Len(d)
    ELSE (CHOOSE i \in 1..Len(d) : d[i] # 48 /\ \A k \in 1..(i - 1) : d[k] = 48) - 1

\* the digits d without their leading zeros
Significant(d) == SubSeq(d, LeadingZeros(d) + 1, Len(d))

\* the number a few decimal digits stand for
RECURSIVE DigitsValue(_)
DigitsValue(d) ==
    IF d = <<>> THEN 0
    ELSE 10 * DigitsValue(SubSeq(d, 1, Len(d) - 1)) + (d[Len(d)] - 48)

\* the decimal digits of u64::MAX, and of i64::MIN without its sign
U64MaxDigits ==
    <<49, 56, 52, 52, 54, 55, 52, 52, 48, 55, 51, 55, 48, 57, 53, 53, 49, 54, 49, 53>>

I64MinDigits ==
    <<57, 50, 50, 51, 51, 55, 50, 48, 51, 54, 56, 53, 52, 55, 55, 53, 56, 48, 56>>

\* d <= max, for two digit strings without leading zeros
DigitsLeq(d, max) ==
    \/ Len(d) < Len(max)
    \/ /\ Len(d) = Len(max)
       /\ \/ d = max
          \/ \E i \in 1..Len(d) :
                /\ d[i] < max[i]
                /\ \A j \in 1..(i - 1) : d[j] = max[j]

\* the number of the digits d fits a u64
FitsU64(d) == DigitsLeq(Significant(d), U64MaxDigits)

\* How many of the digits d go into the significand that holds the digits
\* sig: serde_json keeps the significand in a u64 and stops at the first
\* digit with which it would overflow.
Kept(sig, d) == Cardinality({n \in 1..Len(d) : FitsU64(sig \o SubSeq(d, 1, n))})

\* of the integer digits, those in the significand (parse_integer); every
\* one behind them counts for the exponent (parse_long_integer)
IntKept(int) == SubSeq(int, 1, Kept(<<>>, int))

\* how many fraction digits are in the significand (parse_decimal); those
\* behind them are dropped (parse_decimal_overflow)
FracKept(int, frac) == Kept(IntKept(int), frac)

\* the significand of the number, without leading zeros (none for zero)
SignificandDigits(int, frac) ==
    Significant(IntKept(int) \o SubSeq(frac, 1, FracKept(int, frac)))

\* the decimal digits of i32::MAX
I32MaxDigits == <<50, 49, 52, 55, 52, 56, 51, 54, 52, 55>>

\* the digits of the exponent that may start at f and ends before x, and
\* whether it is written with "-"
ExponentDigits(s, f, x) == IF x = f THEN <<>> ELSE SubSeq(s, ExpDigits(s, f), x - 1)

ExponentMinus(s, f, x) == x # f /\ SafeGet(s, f + 1) = 45

\* parse_exponent collects the digits d of the exponent in an i32; with a
\* digit that would overflow it, it leaves for parse_exponent_overflow
ExponentOverflows(d) == ~DigitsLeq(Significant(d), I32MaxDigits)

\* the exponent the significand has before the exponent written is added:
\* one up for every integer digit not kept (parse_long_integer), one down
\* for every fraction digit kept (parse_decimal)
StartingExponent(int, frac) == Len(int) - Len(IntKept(int)) - FracKept(int, frac)

\* parse_exponent's final_exp: starting_exp.saturating_add(exp), or
\* saturating_sub(exp) for an exponent written with "-", on the i32
FinalExponent(start, exp, minus) ==
    IF minus
    THEN IF start < 0 /\ exp - 1 > 2147483647 + start
         THEN (0 - 2147483647) - 1
         ELSE start - exp
    ELSE IF start > 0 /\ exp > 2147483647 - start
         THEN 2147483647
         ELSE start + exp

\* For the powers of ten 10^289 .. 10^308, the least u64 whose f64, times
\* the f64 of the power, is infinite (as f64s; f64::MAX is
\* 1.7976931348623157e308).  With a lesser power of ten no u64 gets there.
InfiniteFrom ==
    <<
       <<49, 55, 57, 55, 54, 57, 51, 49, 51, 52, 56, 54, 50, 51, 49, 53, 54, 50, 50, 53>>,
       <<49, 55, 57, 55, 54, 57, 51, 49, 51, 52, 56, 54, 50, 51, 49, 53, 54, 52, 57>>,
       <<49, 55, 57, 55, 54, 57, 51, 49, 51, 52, 56, 54, 50, 51, 49, 54, 48, 48>>,
       <<49, 55, 57, 55, 54, 57, 51, 49, 51, 52, 56, 54, 50, 51, 49, 53, 56>>,
       <<49, 55, 57, 55, 54, 57, 51, 49, 51, 52, 56, 54, 50, 51, 49, 54>>,
       <<49, 55, 57, 55, 54, 57, 51, 49, 51, 52, 56, 54, 50, 51, 50>>,
       <<49, 55, 57, 55, 54, 57, 51, 49, 51, 52, 56, 54, 50, 52>>,
       <<49, 55, 57, 55, 54, 57, 51, 49, 51, 52, 56, 54, 51>>,
       <<49, 55, 57, 55, 54, 57, 51, 49, 51, 52, 56, 55>>,
       <<49, 55, 57, 55, 54, 57, 51, 49, 51, 52, 57>>,
       <<49, 55, 57, 55, 54, 57, 51, 49, 51, 53>>,
       <<49, 55, 57, 55, 54, 57, 51, 49, 52>>,
       <<49, 55, 57, 55, 54, 57, 51, 50>>,
       <<49, 55, 57, 55, 54, 57, 52>>,
       <<49, 55, 57, 55, 55, 48>>,
       <<49, 55, 57, 55, 55>>,
       <<49, 55, 57, 56>>,
       <<49, 56, 48>>,
       <<49, 56>>,
       <<50>>
    >>

\* serde_json's f64_from_parts on the significand sig and the power of ten
\* x is "number out of range": a significand that is not zero, and a power
\* of ten beyond 10^308 or a product that is infinite.  (A negative x
\* divides and never fails.)
BeyondF64(sig, x) ==
    /\ sig # <<>>
    /\ x >= 0
    /\ \/ x > 308
       \/ x > 288 /\ DigitsLeq(InfiniteFrom[x - 288], sig)

\* The number of integer digits int, fraction digits frac and exponent
\* digits d (written with "-" or not) is "number out of range".  An
\* exponent beyond the i32 fails for a significand that is not zero and no
\* "-" (parse_exponent_overflow), and gives zero otherwise.
OutOfRange(int, frac, d, minus) ==
    IF ExponentOverflows(d)
    THEN SignificandDigits(int, frac) # <<>> /\ ~minus
    ELSE BeyondF64(SignificandDigits(int, frac),
                   FinalExponent(StartingExponent(int, frac),
                                 DigitsValue(Significant(d)), minus))

\* the fraction digits of the number whose integer part ends before k and
\* whose fraction ends before f
FractionDigits(s, k, f) == IF f = k THEN <<>> ELSE SubSeq(s, k + 1, f - 1)

\* A number without fraction and exponent of digits d is an integer (u64 or
\* i64) when it fits; -0 and every other one is an f64.
IsInteger(neg, d) ==
    IF neg THEN d # <<48>> /\ DigitsLeq(d, I64MinDigits) ELSE DigitsLeq(d, U64MaxDigits)

\* The number whose integer part is s[j..k-1], whose fraction ends before f
\* and whose exponent ends before x, as serde_json parses it into a value.
NumberValue(s, neg, j, k, f, x) ==
    IF ~NumberGrammar(s, j, k, f, x) THEN Fail
    ELSE IF OutOfRange(SubSeq(s, j, k - 1), FractionDigits(s, k, f),
                       ExponentDigits(s, f, x), ExponentMinus(s, f, x))
    THEN Fail
    ELSE Parsed([t |-> "num",
                 int |-> f = k /\ x = f /\ IsInteger(neg, SubSeq(s, j, k - 1)),
                 neg |-> neg,
                 digits |-> SubSeq(s, j, k - 1)], x)

NumberExp(s, neg, j, k, f) == NumberValue(s, neg, j, k, f, ExpEnd(s, f))

NumberFrac(s, neg, j, k) == NumberExp(s, neg, j, k, FracEnd(s, k))

NumberInt(s, neg, j) == NumberFrac(s, neg, j, IntEnd(s, j))

ParseNumber(s, i) == NumberInt(s, s[i] = 45, IF s[i] = 45 THEN i + 1 ELSE i)

\* the number at s[j..], when it is skipped: the index after it, 0 for none
IgnoreNumberEnd(s, j, k, f, x) == IF NumberGrammar(s, j, k, f, x) THEN x ELSE 0

IgnoreNumberExp(s, j, k, f) == IgnoreNumberEnd(s, j, k, f, ExpEnd(s, f))

IgnoreNumberFrac(s, j, k) == IgnoreNumberExp(s, j, k, FracEnd(s, k))

IgnoreNumberInt(s, j) == IgnoreNumberFrac(s, j, IntEnd(s, j))

\* serde_json's ignore_integer, ignore_decimal, ignore_exponent: the grammar
\* of a number, its value not looked at
IgnoreNumber(s, i) == IgnoreNumberInt(s, IF s[i] = 45 THEN i + 1 ELSE i)

ParseLiteral(s, i, lit, v) ==
    IF i + Len(lit) - 1 <= Len(s) /\ SubSeq(s, i, i + Len(lit) - 1) = lit
    THEN Parsed(v, i + Len(lit))
    ELSE Fail

RECURSIVE ParseValue(_, _, _)
RECURSIVE ParseElements(_, _, _, _)
RECURSIVE ParseMembers(_, _, _, _)

\* the index behind the separator at j and the whitespace around it
Behind(s, j) == SkipWs(s, SkipWs(s, j) + 1)

\* r the element parsed: "]" ends the array, "," has the next behind it
ElementParsed(s, acc, r, depth) ==
    IF ~r.ok THEN Fail
    ELSE IF SafeGet(s, SkipWs(s, r.p)) = 93
    THEN Parsed([t |-> "arr", a |-> Append(acc, r.v)], SkipWs(s, r.p) + 1)
    ELSE IF SafeGet(s, SkipWs(s, r.p)) = 44
    THEN ParseElements(s, Behind(s, r.p), Append(acc, r.v), depth)
    ELSE Fail

\* The elements of an array from i (behind "[" or ",", whitespace skipped)
\* to its "]": behind "[" the array may end at once.
ParseElements(s, i, acc, depth) ==
    IF acc = <<>> /\ SafeGet(s, i) = 93 THEN Parsed([t |-> "arr", a |-> <<>>], i + 1)
    ELSE ElementParsed(s, acc, ParseValue(s, i, depth), depth)

\* r the value parsed of the member key: "}" ends the object, "," has the
\* next member behind it
MemberValue(s, acc, key, r, depth) ==
    IF ~r.ok THEN Fail
    ELSE IF SafeGet(s, SkipWs(s, r.p)) = 125
    THEN Parsed([t |-> "obj", o |-> Append(acc, <<key, r.v>>)], SkipWs(s, r.p) + 1)
    ELSE IF SafeGet(s, SkipWs(s, r.p)) = 44
    THEN ParseMembers(s, Behind(s, r.p), Append(acc, <<key, r.v>>), depth)
    ELSE Fail

\* k the key parsed: ":" behind it, and the value behind that
MemberKey(s, acc, k, depth) ==
    IF k.ok /\ SafeGet(s, SkipWs(s, k.p)) = 58
    THEN MemberValue(s, acc, k.v.s, ParseValue(s, Behind(s, k.p), depth), depth)
    ELSE Fail

\* The members of an object from i (behind "{" or ",", whitespace skipped)
\* to its "}": behind "{" the object may end at once.
ParseMembers(s, i, acc, depth) ==
    IF acc = <<>> /\ SafeGet(s, i) = 125 THEN Parsed([t |-> "obj", o |-> <<>>], i + 1)
    ELSE MemberKey(s, acc, ParseString(s, i), depth)

\* The value that starts at i (s[i] is not whitespace), as serde_json parses
\* it into a serde_json::Value or into the buffered content of a tagged
\* enum.  depth is serde_json's remaining_depth: an array or an object
\* takes one of it, and none may be left over ("recursion limit exceeded").
ParseValue(s, i, depth) ==
    IF SafeGet(s, i) = 91
    THEN IF depth <= 1 THEN Fail ELSE ParseElements(s, SkipWs(s, i + 1), <<>>, depth - 1)
    ELSE IF SafeGet(s, i) = 123
    THEN IF depth <= 1 THEN Fail ELSE ParseMembers(s, SkipWs(s, i + 1), <<>>, depth - 1)
    ELSE CASE SafeGet(s, i) = 34 -> ParseString(s, i)
           [] SafeGet(s, i) = 45 \/ IsDigit(SafeGet(s, i)) -> ParseNumber(s, i)
           [] SafeGet(s, i) = 116 ->
                ParseLiteral(s, i, <<116, 114, 117, 101>>, [t |-> "bool", b |-> TRUE])
           [] SafeGet(s, i) = 102 ->
                ParseLiteral(s, i, <<102, 97, 108, 115, 101>>, [t |-> "bool", b |-> FALSE])
           [] SafeGet(s, i) = 110 ->
                ParseLiteral(s, i, <<110, 117, 108, 108>>, [t |-> "null"])
           [] OTHER -> Fail

\* the parsed value r is all of s but whitespace
WholeText(s, r) == IF r.ok /\ SkipWs(s, r.p) = Len(s) + 1 THEN r ELSE Fail

\* serde_json::from_str::<serde_json::Value>: one value, nothing but
\* whitespace around it, at most 127 arrays and objects in one another
ParseJson(s) == WholeText(s, ParseValue(s, SkipWs(s, 1), 128))

RECURSIVE IgnoreValue(_, _)
RECURSIVE IgnoreElements(_, _, _)
RECURSIVE IgnoreMembers(_, _, _)

\* the index after the literal lit at i, 0 for none
IgnoreLiteral(s, i, lit) ==
    IF i + Len(lit) - 1 <= Len(s) /\ SubSeq(s, i, i + Len(lit) - 1) = lit
    THEN i + Len(lit)
    ELSE 0

\* e the index after a skipped element (0: it is no value)
IgnoredElement(s, e) ==
    IF e = 0 THEN 0
    ELSE IF SafeGet(s, SkipWs(s, e)) = 93 THEN SkipWs(s, e) + 1
    ELSE IF SafeGet(s, SkipWs(s, e)) = 44 THEN IgnoreElements(s, Behind(s, e), FALSE)
    ELSE 0

IgnoreElements(s, i, first) ==
    IF first /\ SafeGet(s, i) = 93 THEN i + 1 ELSE IgnoredElement(s, IgnoreValue(s, i))

\* e the index after a skipped member's value (0: it is no value)
IgnoredMember(s, e) ==
    IF e = 0 THEN 0
    ELSE IF SafeGet(s, SkipWs(s, e)) = 125 THEN SkipWs(s, e) + 1
    ELSE IF SafeGet(s, SkipWs(s, e)) = 44 THEN IgnoreMembers(s, Behind(s, e), FALSE)
    ELSE 0

\* e the index after a skipped member's key (0: it is no string)
IgnoredKey(s, e) ==
    IF e # 0 /\ SafeGet(s, SkipWs(s, e)) = 58
    THEN IgnoredMember(s, IgnoreValue(s, Behind(s, e)))
    ELSE 0

IgnoreMembers(s, i, first) ==
    IF first /\ SafeGet(s, i) = 125 THEN i + 1 ELSE IgnoredKey(s, IgnoreStr(s, i))

\* serde_json's ignore_value, the value of a member that no field of the
\* struct names: the index after the value that starts at i, 0 for none.
\* The value is skipped, not parsed: its strings by IgnoreStr, its numbers
\* by IgnoreNumber, its arrays and objects to any depth.
IgnoreValue(s, i) ==
    IF SafeGet(s, i) = 91 THEN IgnoreElements(s, SkipWs(s, i + 1), TRUE)
    ELSE IF SafeGet(s, i) = 123 THEN IgnoreMembers(s, SkipWs(s, i + 1), TRUE)
    ELSE CASE SafeGet(s, i) = 34 -> IgnoreStr(s, i)
           [] SafeGet(s, i) = 45 \/ IsDigit(SafeGet(s, i)) -> IgnoreNumber(s, i)
           [] SafeGet(s, i) = 116 -> IgnoreLiteral(s, i, <<116, 114, 117, 101>>)
           [] SafeGet(s, i) = 102 -> IgnoreLiteral(s, i, <<102, 97, 108, 115, 101>>)
           [] SafeGet(s, i) = 110 -> IgnoreLiteral(s, i, <<110, 117, 108, 108>>)
           [] OTHER -> 0

(***************************************************************************)
(* serde: the derived Deserialize of a type, from the buffered content of  *)
(* a tagged enum and from the JSON text                                    *)
(***************************************************************************)

\* The code points of the field and variant names of the stream-chunk types.
Chars(n) ==
    CASE
       n = "id" -> <<105, 100>>
    [] n = "object" -> <<111, 98, 106, 101, 99, 116>>
    [] n = "created" -> <<99, 114, 101, 97, 116, 101, 100>>
    [] n = "model" -> <<109, 111, 100, 101, 108>>
    [] n = "choices" -> <<99, 104, 111, 105, 99, 101, 115>>
    [] n = "index" -> <<105, 110, 100, 101, 120>>
    [] n = "delta" -> <<100, 101, 108, 116, 97>>
    [] n = "finish_reason" -> <<102, 105, 110, 105, 115, 104, 95, 114, 101, 97, 115, 111, 110>>
    [] n = "role" -> <<114, 111, 108, 101>>
    [] n = "content" -> <<99, 111, 110, 116, 101, 110, 116>>
    [] n = "tool_calls" -> <<116, 111, 111, 108, 95, 99, 97, 108, 108, 115>>
    [] n = "type" -> <<116, 121, 112, 101>>
    [] n = "function" -> <<102, 117, 110, 99, 116, 105, 111, 110>>
    [] n = "name" -> <<110, 97, 109, 101>>
    [] n = "arguments" -> <<97, 114, 103, 117, 109, 101, 110, 116, 115>>
    [] n = "message" -> <<109, 101, 115, 115, 97, 103, 101>>
    [] n = "content_block" -> <<99, 111, 110, 116, 101, 110, 116, 95, 98, 108, 111, 99, 107>>
    [] n = "usage" -> <<117, 115, 97, 103, 101>>
    [] n = "error" -> <<101, 114, 114, 111, 114>>
    [] n = "text" -> <<116, 101, 120, 116>>
    [] n = "partial_json" -> <<112, 97, 114, 116, 105, 97, 108, 95, 106, 115, 111, 110>>
    [] n = "stop_reason" -> <<115, 116, 111, 112, 95, 114, 101, 97, 115, 111, 110>>
    [] n = "stop_sequence" -> <<115, 116, 111, 112, 95, 115, 101, 113, 117, 101, 110, 99, 101>>
    [] n = "input_tokens" -> <<105, 110, 112, 117, 116, 95, 116, 111, 107, 101, 110, 115>>
    [] n = "output_tokens" -> <<111, 117, 116, 112, 117, 116, 95, 116, 111, 107, 101, 110, 115>>
    [] n = "source" -> <<115, 111, 117, 114, 99, 101>>
    [] n = "media_type" -> <<109, 101, 100, 105, 97, 95, 116, 121, 112, 101>>
    [] n = "data" -> <<100, 97, 116, 97>>
    [] n = "input" -> <<105, 110, 112, 117, 116>>
    [] n = "tool_use_id" -> <<116, 111, 111, 108, 95, 117, 115, 101, 95, 105, 100>>
    [] n = "is_error" -> <<105, 115, 95, 101, 114, 114, 111, 114>>
    [] n = "created_at" -> <<99, 114, 101, 97, 116, 101, 100, 95, 97, 116>>
    [] n = "response" -> <<114, 101, 115, 112, 111, 110, 115, 101>>
    [] n = "done" -> <<100, 111, 110, 101>>
    [] n = "images" -> <<105, 109, 97, 103, 101, 115>>
    [] n = "total_duration" -> <<116, 111, 116, 97, 108, 95, 100, 117, 114, 97, 116, 105, 111, 110>>
    [] n = "load_duration" -> <<108, 111, 97, 100, 95, 100, 117, 114, 97, 116, 105, 111, 110>>
    [] n = "prompt_eval_count" -> <<112, 114, 111, 109, 112, 116, 95, 101, 118, 97, 108, 95, 99, 111, 117, 110, 116>>
    [] n = "prompt_eval_duration" -> <<112, 114, 111, 109, 112, 116, 95, 101, 118, 97, 108, 95, 100, 117, 114, 97, 116, 105, 111, 110>>
    [] n = "eval_count" -> <<101, 118, 97, 108, 95, 99, 111, 117, 110, 116>>
    [] n = "eval_duration" -> <<101, 118, 97, 108, 95, 100, 117, 114, 97, 116, 105, 111, 110>>
    [] n = "message_start" -> <<109, 101, 115, 115, 97, 103, 101, 95, 115, 116, 97, 114, 116>>
    [] n = "content_block_start" -> <<99, 111, 110, 116, 101, 110, 116, 95, 98, 108, 111, 99, 107, 95, 115, 116, 97, 114, 116>>
    [] n = "content_block_delta" -> <<99, 111, 110, 116, 101, 110, 116, 95, 98, 108, 111, 99, 107, 95, 100, 101, 108, 116, 97>>
    [] n = "content_block_stop" -> <<99, 111, 110, 116, 101, 110, 116, 95, 98, 108, 111, 99, 107, 95, 115, 116, 111, 112>>
    [] n = "message_delta" -> <<109, 101, 115, 115, 97, 103, 101, 95, 100, 101, 108, 116, 97>>
    [] n = "message_stop" -> <<109, 101, 115, 115, 97, 103, 101, 95, 115, 116, 111, 112>>
    [] n = "ping" -> <<112, 105, 110, 103>>
    [] n = "param" -> <<112, 97, 114, 97, 109>>
    [] n = "code" -> <<99, 111, 100, 101>>
    [] n = "invalid_api_key" -> <<105, 110, 118, 97, 108, 105, 100, 95, 97, 112, 105, 95, 107, 101, 121>>
    [] n = "insufficient_quota" -> <<105, 110, 115, 117, 102, 102, 105, 99, 105, 101, 110, 116, 95, 113, 117, 111, 116, 97>>
    [] n = "model_not_found" -> <<109, 111, 100, 101, 108, 95, 110, 111, 116, 95, 102, 111, 117, 110, 100>>
    [] n = "rate_limit_exceeded" -> <<114, 97, 116, 101, 95, 108, 105, 109, 105, 116, 95, 101, 120, 99, 101, 101, 100, 101, 100>>
    [] n = "content_filter" -> <<99, 111, 110, 116, 101, 110, 116, 95, 102, 105, 108, 116, 101, 114>>
    [] n = "Invalid API key" -> <<73, 110, 118, 97, 108, 105, 100, 32, 65, 80, 73, 32, 107, 101, 121>>
    [] n = "Forbidden" -> <<70, 111, 114, 98, 105, 100, 100, 101, 110>>
    [] n = "Not found" -> <<78, 111, 116, 32, 102, 111, 117, 110, 100>>
    [] n = "Server error: " -> <<83, 101, 114, 118, 101, 114, 32, 101, 114, 114, 111, 114, 58, 32>>
    [] n = "HTTP " -> <<72, 84, 84, 80, 32>>
    [] n = ": " -> <<58, 32>>
    [] n = "text_delta" -> <<116, 101, 120, 116, 95, 100, 101, 108, 116, 97>>
    [] n = "input_json_delta" -> <<105, 110, 112, 117, 116, 95, 106, 115, 111, 110, 95, 100, 101, 108, 116, 97>>
    [] n = "image" -> <<105, 109, 97, 103, 101>>
    [] n = "tool_use" -> <<116, 111, 111, 108, 95, 117, 115, 101>>
    [] n = "tool_result" -> <<116, 111, 111, 108, 95, 114, 101, 115, 117, 108, 116>>

\* the decimal digits of u32::MAX
U32MaxDigits == <<52, 50, 57, 52, 57, 54, 55, 50, 57, 53>>

\* The types of the fields: String, u32, u64, bool, serde_json::Value,
\* Option<T>, Vec<T>, a struct, an internally tagged enum.
TString == [k |-> "string"]

TU32 == [k |-> "u32"]

TU64 == [k |-> "u64"]

TBool == [k |-> "bool"]

TValue == [k |-> "value"]

TOption(T) == [k |-> "option", of |-> T]

TVec(T) == [k |-> "vec", of |-> T]

\* a field named n (the name in the JSON text) of type T
Field(n, T) == [id |-> n, key |-> Chars(n), ty |-> T]

TStruct(fields) == [k |-> "struct", fields |-> fields]

\* a struct variant and a unit variant of an enum, named n in the JSON text
Variant(n, fields) == [id |-> n, name |-> Chars(n), unit |-> FALSE, fields |-> fields]

UnitVariant(n) == [id |-> n, name |-> Chars(n), unit |-> TRUE, fields |-> <<>>]

\* #[serde(tag = "...")] enum
TTagged(tag, variants) == [k |-> "tagged", tag |-> Chars(tag), variants |-> variants]

None == [some |-> FALSE]

Some(x) == [some |-> TRUE, v |-> x]

Ok(x) == [ok |-> TRUE, val |-> x]

\* the positions of the entries of the object's members o whose key is k
Hits(o, k) == {j \in 1..Len(o) : o[j][1] = k}

\* the members o without the entry at position j
Without(o, j) == SubSeq(o, 1, j - 1) \o SubSeq(o, j + 1, Len(o))

RECURSIVE Deser(_, _)

\* the results res of the elements of a sequence, as the result of the whole
Collect(res) ==
    IF \A i \in DOMAIN res : res[i].ok
    THEN Ok([i \in DOMAIN res |-> res[i].val])
    ELSE Fail

\* the results res of the fields, as the struct's result: a value per name
Build(fields, res) ==
    IF \A i \in DOMAIN res : res[i].ok
    THEN Ok([id \in {fields[i].id : i \in DOMAIN res} |->
                res[CHOOSE i \in DOMAIN res : fields[i].id = id].val])
    ELSE Fail

\* a field from the entries of a map that have its name: a known name at
\* most once, a missing field only when it is an Option
FieldAt(o, field, hits) ==
    IF Cardinality(hits) > 1 THEN Fail
    ELSE IF hits = {} THEN
        IF field.ty.k = "option" THEN Ok(None) ELSE Fail
    ELSE Deser(o[CHOOSE j \in hits : TRUE][2], field.ty)

\* Deserialize of a struct (or of a struct variant's content) with the given
\* fields: from a map by name, unknown names ignored; from a sequence by
\* position, one element per field.
DeserFields(v, fields) ==
    IF v.t = "obj"
    THEN Build(fields,
            [i \in 1..Len(fields) |-> FieldAt(v.o, fields[i], Hits(v.o, fields[i].key))])
    ELSE IF v.t = "arr" /\ Len(v.a) = Len(fields)
    THEN Build(fields, [i \in 1..Len(fields) |-> Deser(v.a[i], fields[i].ty)])
    ELSE Fail

\* the variant's value, r the result of its fields
VariantValue(id, r) == IF r.ok THEN Ok([variant |-> id, f |-> r.val]) ELSE Fail

\* the content `rest` as the variant var: a unit variant takes a map of any
\* entries, and of a sequence only the empty one
VariantContent(var, rest) ==
    IF var.unit THEN
        IF rest.t = "arr" /\ rest.a # <<>> THEN Fail ELSE Ok([variant |-> var.id])
    ELSE VariantValue(var.id, DeserFields(rest, var.fields))

\* the variant the tag names, `found` the variants of that name
VariantNamed(variants, found, rest) ==
    IF found = {} THEN Fail
    ELSE VariantContent(variants[CHOOSE i \in found : TRUE], rest)

\* The tag is a string that names a variant.  The tag of an enum that is
\* itself read from buffered content (an enum inside a tagged enum) may
\* also be the index of a variant, an unsigned integer; the tag of an enum
\* read from the JSON text may not.
Tagged(T, tag, rest, buffered) ==
    IF tag.t = "str"
    THEN VariantNamed(T.variants,
            {i \in 1..Len(T.variants) : T.variants[i].name = tag.s}, rest)
    ELSE IF buffered /\ tag.t = "num" /\ tag.int /\ ~tag.neg /\ Len(tag.digits) <= 6
    THEN VariantNamed(T.variants,
            {i \in 1..Len(T.variants) : i - 1 = DigitsValue(tag.digits)}, rest)
    ELSE Fail

\* a map with its tag entries `hits`: exactly one, the rest is the content
TaggedMap(T, o, hits, buffered) ==
    IF Cardinality(hits) # 1 THEN Fail
    ELSE Tagged(T, o[CHOOSE j \in hits : TRUE][2],
                [t |-> "obj", o |-> Without(o, CHOOSE j \in hits : TRUE)], buffered)

\* Deserialize of an internally tagged enum from the value v that serde
\* buffered: from a map with the tag among its entries, or from a sequence
\* whose first element is the tag
DeserTagged(v, T, buffered) ==
    IF v.t = "obj" THEN TaggedMap(T, v.o, Hits(v.o, T.tag), buffered)
    ELSE IF v.t = "arr" /\ Len(v.a) >= 1
    THEN Tagged(T, v.a[1], [t |-> "arr", a |-> Tail(v.a)], buffered)
    ELSE Fail

\* Option<T> of a value that is not null
SomeOf(r) == IF r.ok THEN Ok(Some(r.val)) ELSE Fail

\* Deserialize of type T from the value v of the buffered content of a
\* tagged enum (serde's ContentDeserializer)
Deser(v, T) ==
    IF T.k = "string" THEN
        IF v.t = "str" THEN Ok(v.s) ELSE Fail
    ELSE IF T.k = "bool" THEN
        IF v.t = "bool" THEN Ok(v.b) ELSE Fail
    ELSE IF T.k = "u32" THEN
        IF v.t = "num" /\ v.int /\ ~v.neg /\ DigitsLeq(v.digits, U32MaxDigits)
        THEN Ok(v.digits) ELSE Fail
    ELSE IF T.k = "u64" THEN
        IF v.t = "num" /\ v.int /\ ~v.neg /\ DigitsLeq(v.digits, U64MaxDigits)
        THEN Ok(v.digits) ELSE Fail
    ELSE IF T.k = "value" THEN Ok(v)
    ELSE IF T.k = "option" THEN
        IF v.t = "null" THEN Ok(None) ELSE SomeOf(Deser(v, T.of))
    ELSE IF T.k = "vec" THEN
        IF v.t = "arr" THEN Collect([i \in 1..Len(v.a) |-> Deser(v.a[i], T.of)])
        ELSE Fail
    ELSE IF T.k = "struct" THEN DeserFields(v, T.fields)
    ELSE IF T.k = "tagged" THEN DeserTagged(v, T, TRUE)
    ELSE Fail

\* a value x deserialised from the text, p the index after it
At(x, p) == [ok |-> TRUE, val |-> x, p |-> p]

\* the result r, of a value that ends before p
Positioned(r, p) == IF r.ok THEN At(r.val, p) ELSE Fail

StringAt(r) == IF r.ok THEN At(r.v.s, r.p) ELSE Fail

BoolAt(r) == IF r.ok THEN At(r.v.b, r.p) ELSE Fail

ValueAt(r) == IF r.ok THEN At(r.v, r.p) ELSE Fail

NoneAt(r) == IF r.ok THEN At(None, r.p) ELSE Fail

SomeAt(r) == IF r.ok THEN At(Some(r.val), r.p) ELSE Fail

\* an unsigned integer of at most max from the parsed number r
UnsignedAt(r, max) ==
    IF r.ok /\ r.v.int /\ ~r.v.neg /\ DigitsLeq(r.v.digits, max)
    THEN At(r.v.digits, r.p)
    ELSE Fail

\* a tagged enum at the root of the text: the whole value r is buffered,
\* the tag is read from the text
TaggedAt(r, T) == IF r.ok THEN Positioned(DeserTagged(r.v, T, FALSE), r.p) ELSE Fail

\* the places `at` of the elements of an array or of the members of an
\* object, p the index after its "]" or "}"
Spanned(at, p) == [ok |-> TRUE, at |-> at, p |-> p]

RECURSIVE SpanElements(_, _, _, _)
RECURSIVE SpanMembers(_, _, _, _)

\* e the index after an element (0: it is no value): "]" ends the
\* sequence, "," has the next element behind it
SpanElement(s, acc, e) ==
    IF e = 0 THEN Fail
    ELSE IF SafeGet(s, SkipWs(s, e)) = 93 THEN Spanned(acc, SkipWs(s, e) + 1)
    ELSE IF SafeGet(s, SkipWs(s, e)) = 44 THEN SpanElements(s, Behind(s, e), acc, FALSE)
    ELSE Fail

\* The elements of a sequence from i (behind "[" or ",") to the "]": where
\* each of them starts.  What an element is read as is decided by its
\* type; here it is only passed over.
SpanElements(s, i, acc, first) ==
    IF first /\ SafeGet(s, i) = 93 THEN Spanned(acc, i + 1)
    ELSE SpanElement(s, Append(acc, i), IgnoreValue(s, i))

\* e the index after a member's value (0: it is no value): "}" ends the
\* map, "," has the next member behind it
SpanMember(s, acc, e) ==
    IF e = 0 THEN Fail
    ELSE IF SafeGet(s, SkipWs(s, e)) = 125 THEN Spanned(acc, SkipWs(s, e) + 1)
    ELSE IF SafeGet(s, SkipWs(s, e)) = 44 THEN SpanMembers(s, Behind(s, e), acc, FALSE)
    ELSE Fail

\* k the key of a member: ":" behind it, and the value behind that
SpanKey(s, acc, k) ==
    IF k.ok /\ SafeGet(s, SkipWs(s, k.p)) = 58
    THEN SpanMember(s, Append(acc, <<k.v.s, Behind(s, k.p)>>),
                    IgnoreValue(s, Behind(s, k.p)))
    ELSE Fail

\* The members of a map from i (behind "{" or ",") to the "}": the key of
\* each, parsed as a string, and where its value starts.
SpanMembers(s, i, acc, first) ==
    IF first /\ SafeGet(s, i) = 125 THEN Spanned(acc, i + 1)
    ELSE SpanKey(s, acc, ParseString(s, i))

RECURSIVE DeserText(_, _, _, _)

\* Vec<T> of the elements at r
VecAt(s, T, r, depth) ==
    IF r.ok
    THEN Positioned(Collect([n \in 1..Len(r.at) |-> DeserText(s, r.at[n], T, depth)]), r.p)
    ELSE Fail

\* a field from the members `at` of a map, hits those of its name: a known
\* name at most once, a missing field only when it is an Option; the value
\* of a member that no field names is never read as a value
FieldText(s, field, at, hits, depth) ==
    IF Cardinality(hits) > 1 THEN Fail
    ELSE IF hits = {} THEN
        IF field.ty.k = "option" THEN Ok(None) ELSE Fail
    ELSE DeserText(s, at[CHOOSE a \in hits : TRUE][2], field.ty, depth)

\* a struct of the members at r
StructAt(s, fields, r, depth) ==
    IF r.ok
    THEN Positioned(Build(fields,
            [n \in 1..Len(fields) |->
                FieldText(s, fields[n], r.at,
                    {a \in 1..Len(r.at) : r.at[a][1] = fields[n].key}, depth)]), r.p)
    ELSE Fail

\* a struct of the elements at r: one element per field, in the fields' order
StructSeqAt(s, fields, r, depth) ==
    IF r.ok /\ Len(r.at) = Len(fields)
    THEN Positioned(Build(fields,
            [n \in 1..Len(fields) |-> DeserText(s, r.at[n], fields[n].ty, depth)]), r.p)
    ELSE Fail

\* Deserialize of type T from the JSON text s at i (s[i] is not whitespace),
\* by serde_json's Deserializer: the text is read as the type asks, a member
\* that no field names is skipped (IgnoreValue), a tagged enum and a
\* serde_json::Value are parsed as values (ParseValue).  depth is the
\* remaining_depth.
DeserText(s, i, T, depth) ==
    LET c == SafeGet(s, i)
    IN  CASE i > Len(s) -> Fail
          [] i <= Len(s) /\ T.k = "string" -> StringAt(ParseString(s, i))
          [] i <= Len(s) /\ T.k = "bool" ->
                IF c = 116
                THEN BoolAt(ParseLiteral(s, i, <<116, 114, 117, 101>>, [t |-> "bool", b |-> TRUE]))
                ELSE IF c = 102
                THEN BoolAt(ParseLiteral(s, i, <<102, 97, 108, 115, 101>>,
                                         [t |-> "bool", b |-> FALSE]))
                ELSE Fail
          [] i <= Len(s) /\ T.k = "u32" ->
                IF c = 45 \/ IsDigit(c) THEN UnsignedAt(ParseNumber(s, i), U32MaxDigits)
                ELSE Fail
          [] i <= Len(s) /\ T.k = "u64" ->
                IF c = 45 \/ IsDigit(c) THEN UnsignedAt(ParseNumber(s, i), U64MaxDigits)
                ELSE Fail
          [] i <= Len(s) /\ T.k = "value" -> ValueAt(ParseValue(s, i, depth))
          [] i <= Len(s) /\ T.k = "option" ->
                IF c = 110
                THEN NoneAt(ParseLiteral(s, i, <<110, 117, 108, 108>>, [t |-> "null"]))
                ELSE SomeAt(DeserText(s, i, T.of, depth))
          [] i <= Len(s) /\ T.k = "tagged" ->
                IF c \in {91, 123} THEN TaggedAt(ParseValue(s, i, depth), T) ELSE Fail
          [] i <= Len(s) /\ T.k = "vec" ->
                IF c = 91 /\ depth > 1
                THEN VecAt(s, T.of, SpanElements(s, SkipWs(s, i + 1), <<>>, TRUE), depth - 1)
                ELSE Fail
          [] i <= Len(s) /\ T.k = "struct" ->
                IF c = 123 /\ depth > 1
                THEN StructAt(s, T.fields,
                        SpanMembers(s, SkipWs(s, i + 1), <<>>, TRUE), depth - 1)
                ELSE IF c = 91 /\ depth > 1
                THEN StructSeqAt(s, T.fields,
                        SpanElements(s, SkipWs(s, i + 1), <<>>, TRUE), depth - 1)
                ELSE Fail

(***************************************************************************)
(* The stream-chunk types of the three providers                           *)
(***************************************************************************)

OpenAIStreamFunction ==
    TStruct(<<Field("name", TOption(TString)), Field("arguments", TOption(TString))>>)

OpenAIStreamToolCall ==
    TStruct(<<Field("index", TU32),
              Field("id", TOption(TString)),
              Field("type", TOption(TString)),
              Field("function", TOption(OpenAIStreamFunction))>>)

OpenAIStreamDelta ==
    TStruct(<<Field("role", TOption(TString)),
              Field("content", TOption(TString)),
              Field("tool_calls", TOption(TVec(OpenAIStreamToolCall)))>>)

OpenAIStreamChoice ==
    TStruct(<<Field("index", TU32),
              Field("delta", OpenAIStreamDelta),
              Field("finish_reason", TOption(TString))>>)

OpenAIStreamChunk ==
    TStruct(<<Field("id", TString),
              Field("object", TString),
              Field("created", TU64),
              Field("model", TString),
              Field("choices", TVec(OpenAIStreamChoice))>>)

AnthropicUsage ==
    TStruct(<<Field("input_tokens", TU32), Field("output_tokens", TU32)>>)

AnthropicImageSource ==
    TStruct(<<Field("type", TString), Field("media_type", TString), Field("data", TString)>>)

AnthropicContentBlock ==
    TTagged("type",
        <<Variant("text", <<Field("text", TString)>>),
          Variant("image", <<Field("source", AnthropicImageSource)>>),
          Variant("tool_use",
              <<Field("id", TString), Field("name", TString), Field("input", TValue)>>),
          Variant("tool_result",
              <<Field("tool_use_id", TString),
                Field("content", TString),
                Field("is_error", TOption(TBool))>>)>>)

AnthropicStreamMessage ==
    TStruct(<<Field("id", TString),
              Field("type", TString),
              Field("role", TString),
              Field("content", TVec(TValue)),
              Field("model", TString),
              Field("stop_reason", TOption(TString)),
              Field("stop_sequence", TOption(TString)),
              Field("usage", AnthropicUsage)>>)

AnthropicContentDelta ==
    TTagged("type",
        <<Variant("text_delta", <<Field("text", TString)>>),
          Variant("input_json_delta", <<Field("partial_json", TString)>>)>>)

AnthropicMessageDelta ==
    TStruct(<<Field("stop_reason", TOption(TString)),
              Field("stop_sequence", TOption(TString))>>)

AnthropicErrorDetail ==
    TStruct(<<Field("type", TString), Field("message", TString)>>)

AnthropicStreamChunk ==
    TTagged("type",
        <<Variant("message_start", <<Field("message", AnthropicStreamMessage)>>),
          Variant("content_block_start",
              <<Field("index", TU32), Field("content_block", AnthropicContentBlock)>>),
          Variant("content_block_delta",
              <<Field("index", TU32), Field("delta", AnthropicContentDelta)>>),
          Variant("content_block_stop", <<Field("index", TU32)>>),
          Variant("message_delta",
              <<Field("delta", AnthropicMessageDelta), Field("usage", AnthropicUsage)>>),
          UnitVariant("message_stop"),
          UnitVariant("ping"),
          Variant("error", <<Field("error", AnthropicErrorDetail)>>)>>)

OllamaMessage ==
    TStruct(<<Field("role", TString),
              Field("content", TString),
              Field("images", TOption(TVec(TString)))>>)

OllamaStreamChunk ==
    TStruct(<<Field("model", TString),
              Field("created_at", TString),
              Field("message", TOption(OllamaMessage)),
              Field("response", TOption(TString)),
              Field("done", TBool),
              Field("total_duration", TOption(TU64)),
              Field("load_duration", TOption(TU64)),
              Field("prompt_eval_count", TOption(TU32)),
              Field("prompt_eval_duration", TOption(TU64)),
              Field("eval_count", TOption(TU32)),
              Field("eval_duration", TOption(TU64))>>)

\* the result r of the value of the text, and nothing but whitespace behind it
FromParsed(text, r) ==
    IF r.ok /\ SkipWs(text, r.p) = Len(text) + 1 THEN Ok(r.val) ELSE Fail

\* serde_json::from_str::<T>(text)
FromStr(text, T) == FromParsed(text, DeserText(text, SkipWs(text, 1), T, 128))

(***************************************************************************)
(* What the producer task does with one trimmed line                       *)
(***************************************************************************)

\* The items of the channel, Result<String, Error>: Ok(text), or Err of a
\* kind (the variant of the provider's error enum) with its message.
OkItem(text) == [ok |-> TRUE, kind |-> "Ok", text |-> text]

ErrItem(kind, message) == [ok |-> FALSE, kind |-> kind, text |-> message]

\* Err(Error::Network { source }); the transport's message is not modelled
NetworkError == ErrItem("Network", <<>>)

\* What a line makes the task do: nothing, push an item and then go on or
\* return, or return (dropping the sender).
Skip == [act |-> "skip"]

Return == [act |-> "return"]

Send(item, after) == [act |-> "send", item |-> item, after |-> after]

\* "data: "
DataPrefix == <<100, 97, 116, 97, 58, 32>>

\* "[DONE]"
DoneSentinel == <<91, 68, 79, 78, 69, 93>>

\* "event: message_stop"
EventMessageStop ==
    <<101, 118, 101, 110, 116, 58, 32, 109, 101, 115, 115, 97, 103, 101, 95, 115, 116,
      111, 112>>

\* OpenAIChunk, but a chunk that does not parse ends the stream
OpenAIChunkStrict(r) ==
    LET choices == r.val["choices"]
        content == choices[1]["delta"]["content"]
    IN  IF ~r.ok THEN Return
        ELSE IF Len(choices) = 0 THEN Skip
        ELSE IF ~content.some THEN Skip
        ELSE IF content.v = <<>> THEN Skip
        ELSE Send(OkItem(content.v), "continue")

\* OpenAIChunk, but the content is pushed also when it is empty
OpenAIChunkEmptyDelta(r) ==
    LET choices == r.val["choices"]
        content == choices[1]["delta"]["content"]
    IN  IF ~r.ok THEN Skip
        ELSE IF Len(choices) = 0 THEN Skip
        ELSE IF ~content.some THEN Skip
        ELSE Send(OkItem(content.v), "continue")

\* OpenAI (SSE-plain): r the parsed chunk.  The content of the first
\* choice's delta is pushed unless it is missing or empty.
OpenAIChunk(r) ==
    LET choices == r.val["choices"]
        content == choices[1]["delta"]["content"]
    IN  IF ~r.ok THEN Skip
        ELSE IF Len(choices) = 0 THEN Skip
        ELSE IF ~content.some THEN Skip
        ELSE IF content.v = <<>> THEN Skip
        ELSE Send(OkItem(content.v), "continue")

\* the payload of a "data: " line
OpenAIData(data) ==
    IF data = DoneSentinel THEN Return
    ELSE OpenAIChunk(FromStr(data, OpenAIStreamChunk))

\* OpenAILine, but a line that is [DONE] without the prefix ends the stream too
OpenAILineBareDone(line) ==
    IF StartsWith(line, DataPrefix) THEN OpenAIData(AfterPrefix(line, DataPrefix))
    ELSE IF line = DoneSentinel THEN Return
    ELSE Skip

OpenAILine(line) ==
    IF StartsWith(line, DataPrefix) THEN OpenAIData(AfterPrefix(line, DataPrefix))
    ELSE Skip

\* AnthropicChunk, but the task goes on to the next line after an error event
AnthropicChunkGoesOn(r) ==
    LET chunk == r.val
        delta == chunk.f["delta"]
    IN  IF ~r.ok THEN Skip
        ELSE IF chunk.variant = "content_block_delta" THEN
            IF delta.variant = "text_delta" /\ delta.f["text"] # <<>>
            THEN Send(OkItem(delta.f["text"]), "continue")
            ELSE Skip
        ELSE IF chunk.variant = "message_stop" THEN Return
        ELSE IF chunk.variant = "error"
            THEN Send(ErrItem("Other", chunk.f["error"]["message"]), "continue")
        ELSE Skip

\* AnthropicChunk, but an event of a kind the task has no use for ends the
\* stream
AnthropicChunkOtherEnds(r) ==
    LET chunk == r.val
        delta == chunk.f["delta"]
    IN  IF ~r.ok THEN Skip
        ELSE IF chunk.variant = "content_block_delta" THEN
            IF delta.variant = "text_delta" /\ delta.f["text"] # <<>>
            THEN Send(OkItem(delta.f["text"]), "continue")
            ELSE Skip
        ELSE IF chunk.variant = "error"
            THEN Send(ErrItem("Other", chunk.f["error"]["message"]), "return")
        ELSE Return

\* Anthropic (SSE-typed): r the parsed chunk
AnthropicChunk(r) ==
    LET chunk == r.val
        delta == chunk.f["delta"]
    IN  IF ~r.ok THEN Skip
        ELSE IF chunk.variant = "content_block_delta" THEN
            IF delta.variant = "text_delta" /\ delta.f["text"] # <<>>
            THEN Send(OkItem(delta.f["text"]), "continue")
            ELSE Skip
        ELSE IF chunk.variant = "message_stop" THEN Return
        ELSE IF chunk.variant = "error"
            THEN Send(ErrItem("Other", chunk.f["error"]["message"]), "return")
        ELSE Skip

AnthropicLine(line) ==
    IF StartsWith(line, DataPrefix)
    THEN AnthropicChunk(FromStr(AfterPrefix(line, DataPrefix), AnthropicStreamChunk))
    ELSE IF StartsWith(line, EventMessageStop) THEN Return
    ELSE Skip

\* OllamaChunk, but the done flag is looked at before the content
OllamaChunkDoneFirst(r) ==
    LET chunk == r.val
        content == IF chunk["message"].some
                   THEN chunk["message"].v["content"]
                   ELSE IF chunk["response"].some THEN chunk["response"].v ELSE <<>>
    IN  IF ~r.ok THEN Skip
        ELSE IF chunk["done"] THEN Return
        ELSE IF content # <<>> THEN Send(OkItem(content), "continue")
        ELSE Skip

\* OllamaChunk, but a line that does not parse is pushed as an Err item that
\* ends the stream
OllamaChunkStrict(r) ==
    LET chunk == r.val
        content == IF chunk["message"].some
                   THEN chunk["message"].v["content"]
                   ELSE IF chunk["response"].some THEN chunk["response"].v ELSE <<>>
    IN  IF ~r.ok THEN Send(ErrItem("Other", <<>>), "return")
        ELSE IF content # <<>>
        THEN Send(OkItem(content), IF chunk["done"] THEN "return" ELSE "continue")
        ELSE IF chunk["done"] THEN Return ELSE Skip

\* Ollama (NDJSON): r the parsed chunk.  The content is the message's, or
\* the response, or empty; it is pushed unless empty, and then done ends
\* the stream.
OllamaChunk(r) ==
    LET chunk == r.val
        content == IF chunk["message"].some
                   THEN chunk["message"].v["content"]
                   ELSE IF chunk["response"].some THEN chunk["response"].v ELSE <<>>
    IN  IF ~r.ok THEN Skip
        ELSE IF content # <<>>
            THEN Send(OkItem(content), IF chunk["done"] THEN "return" ELSE "continue")
        ELSE IF chunk["done"] THEN Return
        ELSE Skip

OllamaLine(line) ==
    IF line = <<>> THEN Skip ELSE OllamaChunk(FromStr(line, OllamaStreamChunk))

HandleLine(provider, line) ==
    IF provider = "openai" THEN OpenAILine(line)
    ELSE IF provider = "anthropic" THEN AnthropicLine(line)
    ELSE OllamaLine(line)

(***************************************************************************)
(* Inputs: the bytes a response body delivers                              *)
(***************************************************************************)

\* data: {"id":"","object":"","created":0,"model":"","choices":[{"index":0,"delta":{"content":"Hi"}}]}
OpenAIHi ==
    <<100, 97, 116, 97, 58, 32, 123, 34, 105, 100, 34, 58, 34, 34, 44, 34, 111, 98, 106,
      101, 99, 116, 34, 58, 34, 34, 44, 34, 99, 114, 101, 97, 116, 101, 100, 34, 58, 48,
      44, 34, 109, 111, 100, 101, 108, 34, 58, 34, 34, 44, 34, 99, 104, 111, 105, 99, 101,
      115, 34, 58, 91, 123, 34, 105, 110, 100, 101, 120, 34, 58, 48, 44, 34, 100, 101, 108,
      116, 97, 34, 58, 123, 34, 99, 111, 110, 116, 101, 110, 116, 34, 58, 34, 72, 105, 34,
      125, 125, 93, 125>>

\* data: {"id":"","object":"","created":0,"model":"","choices":[{"index":0,"delta":{"content":"é"}}]}
OpenAIAccent ==
    <<100, 97, 116, 97, 58, 32, 123, 34, 105, 100, 34, 58, 34, 34, 44, 34, 111, 98, 106,
      101, 99, 116, 34, 58, 34, 34, 44, 34, 99, 114, 101, 97, 116, 101, 100, 34, 58, 48,
      44, 34, 109, 111, 100, 101, 108, 34, 58, 34, 34, 44, 34, 99, 104, 111, 105, 99, 101,
      115, 34, 58, 91, 123, 34, 105, 110, 100, 101, 120, 34, 58, 48, 44, 34, 100, 101, 108,
      116, 97, 34, 58, 123, 34, 99, 111, 110, 116, 101, 110, 116, 34, 58, 34, 195, 169, 34,
      125, 125, 93, 125>>

\* data: {"id":"","object":"","created":0,"model":"","choices":[{"index":0,"delta":{"content":""}}]}
OpenAIEmpty ==
    <<100, 97, 116, 97, 58, 32, 123, 34, 105, 100, 34, 58, 34, 34, 44, 34, 111, 98, 106,
      101, 99, 116, 34, 58, 34, 34, 44, 34, 99, 114, 101, 97, 116, 101, 100, 34, 58, 48,
      44, 34, 109, 111, 100, 101, 108, 34, 58, 34, 34, 44, 34, 99, 104, 111, 105, 99, 101,
      115, 34, 58, 91, 123, 34, 105, 110, 100, 101, 120, 34, 58, 48, 44, 34, 100, 101, 108,
      116, 97, 34, 58, 123, 34, 99, 111, 110, 116, 101, 110, 116, 34, 58, 34, 34, 125, 125,
      93, 125>>

\* data: {"id":"","choices":[{
OpenAIBad ==
    <<100, 97, 116, 97, 58, 32, 123, 34, 105, 100, 34, 58, 34, 34, 44, 34, 99, 104, 111,
      105, 99, 101, 115, 34, 58, 91, 123>>

\* data: [DONE]
OpenAIDone ==
    <<100, 97, 116, 97, 58, 32, 91, 68, 79, 78, 69, 93>>

\* data: {"type":"content_block_delta","index":0,"delta":{"type":"text_delta","text":"Hi"}}
AnthropicHi ==
    <<100, 97, 116, 97, 58, 32, 123, 34, 116, 121, 112, 101, 34, 58, 34, 99, 111, 110, 116,
      101, 110, 116, 95, 98, 108, 111, 99, 107, 95, 100, 101, 108, 116, 97, 34, 44, 34,
      105, 110, 100, 101, 120, 34, 58, 48, 44, 34, 100, 101, 108, 116, 97, 34, 58, 123, 34,
      116, 121, 112, 101, 34, 58, 34, 116, 101, 120, 116, 95, 100, 101, 108, 116, 97, 34,
      44, 34, 116, 101, 120, 116, 34, 58, 34, 72, 105, 34, 125, 125>>

\* data: {"type":"content_block_delta","index":0,"delta":{"type":"text_delta","text":"é"}}
AnthropicAccent ==
    <<100, 97, 116, 97, 58, 32, 123, 34, 116, 121, 112, 101, 34, 58, 34, 99, 111, 110, 116,
      101, 110, 116, 95, 98, 108, 111, 99, 107, 95, 100, 101, 108, 116, 97, 34, 44, 34,
      105, 110, 100, 101, 120, 34, 58, 48, 44, 34, 100, 101, 108, 116, 97, 34, 58, 123, 34,
      116, 121, 112, 101, 34, 58, 34, 116, 101, 120, 116, 95, 100, 101, 108, 116, 97, 34,
      44, 34, 116, 101, 120, 116, 34, 58, 34, 195, 169, 34, 125, 125>>

\* data: {"type":"ping"}
AnthropicPing ==
    <<100, 97, 116, 97, 58, 32, 123, 34, 116, 121, 112, 101, 34, 58, 34, 112, 105, 110,
      103, 34, 125>>

\* data: {"type":"content_block_delta","index":
AnthropicBad ==
    <<100, 97, 116, 97, 58, 32, 123, 34, 116, 121, 112, 101, 34, 58, 34, 99, 111, 110, 116,
      101, 110, 116, 95, 98, 108, 111, 99, 107, 95, 100, 101, 108, 116, 97, 34, 44, 34,
      105, 110, 100, 101, 120, 34, 58>>

\* data: {"type":"message_stop"}
AnthropicStop ==
    <<100, 97, 116, 97, 58, 32, 123, 34, 116, 121, 112, 101, 34, 58, 34, 109, 101, 115,
      115, 97, 103, 101, 95, 115, 116, 111, 112, 34, 125>>

\* event: message_stop
AnthropicEventStop ==
    <<101, 118, 101, 110, 116, 58, 32, 109, 101, 115, 115, 97, 103, 101, 95, 115, 116, 111,
      112>>

\* data: {"type":"error","error":{"type":"overloaded_error","message":"busy"}}
AnthropicError ==
    <<100, 97, 116, 97, 58, 32, 123, 34, 116, 121, 112, 101, 34, 58, 34, 101, 114, 114,
      111, 114, 34, 44, 34, 101, 114, 114, 111, 114, 34, 58, 123, 34, 116, 121, 112, 101,
      34, 58, 34, 111, 118, 101, 114, 108, 111, 97, 100, 101, 100, 95, 101, 114, 114, 111,
      114, 34, 44, 34, 109, 101, 115, 115, 97, 103, 101, 34, 58, 34, 98, 117, 115, 121, 34,
      125, 125>>

\* {"model":"","created_at":"","message":{"role":"","content":"Hi"},"done":false}
OllamaHi ==
    <<123, 34, 109, 111, 100, 101, 108, 34, 58, 34, 34, 44, 34, 99, 114, 101, 97, 116, 101,
      100, 95, 97, 116, 34, 58, 34, 34, 44, 34, 109, 101, 115, 115, 97, 103, 101, 34, 58,
      123, 34, 114, 111, 108, 101, 34, 58, 34, 34, 44, 34, 99, 111, 110, 116, 101, 110,
      116, 34, 58, 34, 72, 105, 34, 125, 44, 34, 100, 111, 110, 101, 34, 58, 102, 97, 108,
      115, 101, 125>>

\* {"model":"","created_at":"","response":"é","done":false}
OllamaAccent ==
    <<123, 34, 109, 111, 100, 101, 108, 34, 58, 34, 34, 44, 34, 99, 114, 101, 97, 116, 101,
      100, 95, 97, 116, 34, 58, 34, 34, 44, 34, 114, 101, 115, 112, 111, 110, 115, 101, 34,
      58, 34, 195, 169, 34, 44, 34, 100, 111, 110, 101, 34, 58, 102, 97, 108, 115, 101, 125>>

\* {"model":"","created_at":"","response":"a","done":false}
OllamaA ==
    <<123, 34, 109, 111, 100, 101, 108, 34, 58, 34, 34, 44, 34, 99, 114, 101, 97, 116, 101,
      100, 95, 97, 116, 34, 58, 34, 34, 44, 34, 114, 101, 115, 112, 111, 110, 115, 101, 34,
      58, 34, 97, 34, 44, 34, 100, 111, 110, 101, 34, 58, 102, 97, 108, 115, 101, 125>>

\* {"model":"","done":fals
OllamaBad ==
    <<123, 34, 109, 111, 100, 101, 108, 34, 58, 34, 34, 44, 34, 100, 111, 110, 101, 34, 58,
      102, 97, 108, 115>>

\* {"model":"","created_at":"","message":{"role":"","content":""},"done":true}
OllamaDone ==
    <<123, 34, 109, 111, 100, 101, 108, 34, 58, 34, 34, 44, 34, 99, 114, 101, 97, 116, 101,
      100, 95, 97, 116, 34, 58, 34, 34, 44, 34, 109, 101, 115, 115, 97, 103, 101, 34, 58,
      123, 34, 114, 111, 108, 101, 34, 58, 34, 34, 44, 34, 99, 111, 110, 116, 101, 110,
      116, 34, 58, 34, 34, 125, 44, 34, 100, 111, 110, 101, 34, 58, 116, 114, 117, 101, 125>>

\* {"model":"","created_at":"","response":"z","done":true}
OllamaLast ==
    <<123, 34, 109, 111, 100, 101, 108, 34, 58, 34, 34, 44, 34, 99, 114, 101, 97, 116, 101,
      100, 95, 97, 116, 34, 58, 34, 34, 44, 34, 114, 101, 115, 112, 111, 110, 115, 101, 34,
      58, 34, 122, 34, 44, 34, 100, 111, 110, 101, 34, 58, 116, 114, 117, 101, 125>>

\* data: {"error":{"message":"busy","type":"server_error"}}
OpenAIErrorFrame ==
    <<100, 97, 116, 97, 58, 32, 123, 34, 101, 114, 114, 111, 114, 34, 58, 123, 34, 109,
      101, 115, 115, 97, 103, 101, 34, 58, 34, 98, 117, 115, 121, 34, 44, 34, 116, 121,
      112, 101, 34, 58, 34, 115, 101, 114, 118, 101, 114, 95, 101, 114, 114, 111, 114, 34,
      125, 125>>

\* {"error":"busy"}
OllamaErrorFrame ==
    <<123, 34, 101, 114, 114, 111, 114, 34, 58, 34, 98, 117, 115, 121, 34, 125>>

\* the start of a line that never ends: {"response":"aaaaaaaaaaa
OllamaUnterminated ==
    <<123, 34, 114, 101, 115, 112, 111, 110, 115, 101, 34, 58, 34, 97, 97, 97, 97, 97, 97,
      97, 97, 97, 97, 97>>

\* data: {"type":"content_block_delta","delta":{"type":"text_delta","text":"Hi"}}
ScenarioAHi ==
    <<100, 97, 116, 97, 58, 32, 123, 34, 116, 121, 112, 101, 34, 58, 34, 99, 111, 110, 116,
      101, 110, 116, 95, 98, 108, 111, 99, 107, 95, 100, 101, 108, 116, 97, 34, 44, 34,
      100, 101, 108, 116, 97, 34, 58, 123, 34, 116, 121, 112, 101, 34, 58, 34, 116, 101,
      120, 116, 95, 100, 101, 108, 116, 97, 34, 44, 34, 116, 101, 120, 116, 34, 58, 34, 72,
      105, 34, 125, 125>>

\* {"message":{"content":"Hi"},"done":false}
ScenarioBHi ==
    <<123, 34, 109, 101, 115, 115, 97, 103, 101, 34, 58, 123, 34, 99, 111, 110, 116, 101,
      110, 116, 34, 58, 34, 72, 105, 34, 125, 44, 34, 100, 111, 110, 101, 34, 58, 102, 97,
      108, 115, 101, 125>>

\* {"message":{"content":""},"done":true}
ScenarioBDone ==
    <<123, 34, 109, 101, 115, 115, 97, 103, 101, 34, 58, 123, 34, 99, 111, 110, 116, 101,
      110, 116, 34, 58, 34, 34, 125, 44, 34, 100, 111, 110, 101, 34, 58, 116, 114, 117,
      101, 125>>

\* data: {"choices":[{"delta":{"content":"Hi"}}]}
ScenarioCHi ==
    <<100, 97, 116, 97, 58, 32, 123, 34, 99, 104, 111, 105, 99, 101, 115, 34, 58, 91, 123,
      34, 100, 101, 108, 116, 97, 34, 58, 123, 34, 99, 111, 110, 116, 101, 110, 116, 34,
      58, 34, 72, 105, 34, 125, 125, 93, 125>>

\* data: {"type":"content_block_delta","index":0,"delta":{"type":"text_delta","text":""}}
AnthropicEmpty ==
    <<100, 97, 116, 97, 58, 32, 123, 34, 116, 121, 112, 101, 34, 58, 34, 99, 111, 110, 116,
      101, 110, 116, 95, 98, 108, 111, 99, 107, 95, 100, 101, 108, 116, 97, 34, 44, 34,
      105, 110, 100, 101, 120, 34, 58, 48, 44, 34, 100, 101, 108, 116, 97, 34, 58, 123, 34,
      116, 121, 112, 101, 34, 58, 34, 116, 101, 120, 116, 95, 100, 101, 108, 116, 97, 34,
      44, 34, 116, 101, 120, 116, 34, 58, 34, 34, 125, 125>>

\* {"model":"","created_at":"","message":{"role":"","content":""},"done":false}
OllamaEmpty ==
    <<123, 34, 109, 111, 100, 101, 108, 34, 58, 34, 34, 44, 34, 99, 114, 101, 97, 116, 101,
      100, 95, 97, 116, 34, 58, 34, 34, 44, 34, 109, 101, 115, 115, 97, 103, 101, 34, 58,
      123, 34, 114, 111, 108, 101, 34, 58, 34, 34, 44, 34, 99, 111, 110, 116, 101, 110,
      116, 34, 58, 34, 34, 125, 44, 34, 100, 111, 110, 101, 34, 58, 102, 97, 108, 115, 101,
      125>>

\* event: content_block_delta
EventContentBlockDelta ==
    <<101, 118, 101, 110, 116, 58, 32, 99, 111, 110, 116, 101, 110, 116, 95, 98, 108, 111,
      99, 107, 95, 100, 101, 108, 116, 97>>

\* : keep-alive
SseComment ==
    <<58, 32, 107, 101, 101, 112, 45, 97, 108, 105, 118, 101>>

\* retry: 3000
SseRetry ==
    <<114, 101, 116, 114, 121, 58, 32, 51, 48, 48, 48>>

\* event: message_stopped
EventMessageStopped ==
    <<101, 118, 101, 110, 116, 58, 32, 109, 101, 115, 115, 97, 103, 101, 95, 115, 116, 111,
      112, 112, 101, 100>>

\* the content line of "Hi" behind two spaces
OpenAIIndentedHi ==
    <<32, 32, 100, 97, 116, 97, 58, 32, 123, 34, 105, 100, 34, 58, 34, 34, 44, 34, 111, 98,
      106, 101, 99, 116, 34, 58, 34, 34, 44, 34, 99, 114, 101, 97, 116, 101, 100, 34, 58,
      48, 44, 34, 109, 111, 100, 101, 108, 34, 58, 34, 34, 44, 34, 99, 104, 111, 105, 99,
      101, 115, 34, 58, 91, 123, 34, 105, 110, 100, 101, 120, 34, 58, 48, 44, 34, 100, 101,
      108, 116, 97, 34, 58, 123, 34, 99, 111, 110, 116, 101, 110, 116, 34, 58, 34, 72, 105,
      34, 125, 125, 93, 125>>

\* the content line of "Hi" with a carriage return at its end
OpenAIHiCr ==
    <<100, 97, 116, 97, 58, 32, 123, 34, 105, 100, 34, 58, 34, 34, 44, 34, 111, 98, 106,
      101, 99, 116, 34, 58, 34, 34, 44, 34, 99, 114, 101, 97, 116, 101, 100, 34, 58, 48,
      44, 34, 109, 111, 100, 101, 108, 34, 58, 34, 34, 44, 34, 99, 104, 111, 105, 99, 101,
      115, 34, 58, 91, 123, 34, 105, 110, 100, 101, 120, 34, 58, 48, 44, 34, 100, 101, 108,
      116, 97, 34, 58, 123, 34, 99, 111, 110, 116, 101, 110, 116, 34, 58, 34, 72, 105, 34,
      125, 125, 93, 125, 13>>

\* the content line of "Hi" without the space after data:
OpenAINoSpace ==
    <<100, 97, 116, 97, 58, 123, 34, 105, 100, 34, 58, 34, 34, 44, 34, 111, 98, 106, 101,
      99, 116, 34, 58, 34, 34, 44, 34, 99, 114, 101, 97, 116, 101, 100, 34, 58, 48, 44, 34,
      109, 111, 100, 101, 108, 34, 58, 34, 34, 44, 34, 99, 104, 111, 105, 99, 101, 115, 34,
      58, 91, 123, 34, 105, 110, 100, 101, 120, 34, 58, 48, 44, 34, 100, 101, 108, 116, 97,
      34, 58, 123, 34, 99, 111, 110, 116, 101, 110, 116, 34, 58, 34, 72, 105, 34, 125, 125,
      93, 125>>

\* the content line of "Hi" with DATA: in capitals
OpenAIUpper ==
    <<68, 65, 84, 65, 58, 32, 123, 34, 105, 100, 34, 58, 34, 34, 44, 34, 111, 98, 106, 101,
      99, 116, 34, 58, 34, 34, 44, 34, 99, 114, 101, 97, 116, 101, 100, 34, 58, 48, 44, 34,
      109, 111, 100, 101, 108, 34, 58, 34, 34, 44, 34, 99, 104, 111, 105, 99, 101, 115, 34,
      58, 91, 123, 34, 105, 110, 100, 101, 120, 34, 58, 48, 44, 34, 100, 101, 108, 116, 97,
      34, 58, 123, 34, 99, 111, 110, 116, 101, 110, 116, 34, 58, 34, 72, 105, 34, 125, 125,
      93, 125>>

\* the payload of "Hi" without a prefix
OpenAIBareHi ==
    <<123, 34, 105, 100, 34, 58, 34, 34, 44, 34, 111, 98, 106, 101, 99, 116, 34, 58, 34,
      34, 44, 34, 99, 114, 101, 97, 116, 101, 100, 34, 58, 48, 44, 34, 109, 111, 100, 101,
      108, 34, 58, 34, 34, 44, 34, 99, 104, 111, 105, 99, 101, 115, 34, 58, 91, 123, 34,
      105, 110, 100, 101, 120, 34, 58, 48, 44, 34, 100, 101, 108, 116, 97, 34, 58, 123, 34,
      99, 111, 110, 116, 101, 110, 116, 34, 58, 34, 72, 105, 34, 125, 125, 93, 125>>

\* [DONE]
OpenAIBareDone ==
    <<91, 68, 79, 78, 69, 93>>

\* data: [DONE] behind a tab and a space, with a space and a carriage return at its end
OpenAIIndentedDone ==
    <<9, 32, 100, 97, 116, 97, 58, 32, 91, 68, 79, 78, 69, 93, 32, 13>>

\* data: {"type":"message_start","message":{"id":"m","type":"message","role":"assistant","content":[],"model":"c","stop_reason":null,"stop_sequence":null,"usage":{"input_tokens":1,"output_tokens":1}}}
AnthropicMessageStart ==
    <<100, 97, 116, 97, 58, 32, 123, 34, 116, 121, 112, 101, 34, 58, 34, 109, 101, 115,
      115, 97, 103, 101, 95, 115, 116, 97, 114, 116, 34, 44, 34, 109, 101, 115, 115, 97,
      103, 101, 34, 58, 123, 34, 105, 100, 34, 58, 34, 109, 34, 44, 34, 116, 121, 112, 101,
      34, 58, 34, 109, 101, 115, 115, 97, 103, 101, 34, 44, 34, 114, 111, 108, 101, 34, 58,
      34, 97, 115, 115, 105, 115, 116, 97, 110, 116, 34, 44, 34, 99, 111, 110, 116, 101,
      110, 116, 34, 58, 91, 93, 44, 34, 109, 111, 100, 101, 108, 34, 58, 34, 99, 34, 44,
      34, 115, 116, 111, 112, 95, 114, 101, 97, 115, 111, 110, 34, 58, 110, 117, 108, 108,
      44, 34, 115, 116, 111, 112, 95, 115, 101, 113, 117, 101, 110, 99, 101, 34, 58, 110,
      117, 108, 108, 44, 34, 117, 115, 97, 103, 101, 34, 58, 123, 34, 105, 110, 112, 117,
      116, 95, 116, 111, 107, 101, 110, 115, 34, 58, 49, 44, 34, 111, 117, 116, 112, 117,
      116, 95, 116, 111, 107, 101, 110, 115, 34, 58, 49, 125, 125, 125>>

\* data: {"type":"content_block_start","index":0,"content_block":{"type":"text","text":""}}
AnthropicBlockStart ==
    <<100, 97, 116, 97, 58, 32, 123, 34, 116, 121, 112, 101, 34, 58, 34, 99, 111, 110, 116,
      101, 110, 116, 95, 98, 108, 111, 99, 107, 95, 115, 116, 97, 114, 116, 34, 44, 34,
      105, 110, 100, 101, 120, 34, 58, 48, 44, 34, 99, 111, 110, 116, 101, 110, 116, 95,
      98, 108, 111, 99, 107, 34, 58, 123, 34, 116, 121, 112, 101, 34, 58, 34, 116, 101,
      120, 116, 34, 44, 34, 116, 101, 120, 116, 34, 58, 34, 34, 125, 125>>

\* data: {"type":"content_block_delta","index":1,"delta":{"type":"input_json_delta","partial_json":"{"}}
AnthropicInputJson ==
    <<100, 97, 116, 97, 58, 32, 123, 34, 116, 121, 112, 101, 34, 58, 34, 99, 111, 110, 116,
      101, 110, 116, 95, 98, 108, 111, 99, 107, 95, 100, 101, 108, 116, 97, 34, 44, 34,
      105, 110, 100, 101, 120, 34, 58, 49, 44, 34, 100, 101, 108, 116, 97, 34, 58, 123, 34,
      116, 121, 112, 101, 34, 58, 34, 105, 110, 112, 117, 116, 95, 106, 115, 111, 110, 95,
      100, 101, 108, 116, 97, 34, 44, 34, 112, 97, 114, 116, 105, 97, 108, 95, 106, 115,
      111, 110, 34, 58, 34, 123, 34, 125, 125>>

\* data: {"type":"content_block_stop","index":0}
AnthropicBlockStop ==
    <<100, 97, 116, 97, 58, 32, 123, 34, 116, 121, 112, 101, 34, 58, 34, 99, 111, 110, 116,
      101, 110, 116, 95, 98, 108, 111, 99, 107, 95, 115, 116, 111, 112, 34, 44, 34, 105,
      110, 100, 101, 120, 34, 58, 48, 125>>

\* data: {"type":"message_delta","delta":{"stop_reason":"end_turn","stop_sequence":null},"usage":{"input_tokens":1,"output_tokens":9}}
AnthropicMessageDeltaFull ==
    <<100, 97, 116, 97, 58, 32, 123, 34, 116, 121, 112, 101, 34, 58, 34, 109, 101, 115,
      115, 97, 103, 101, 95, 100, 101, 108, 116, 97, 34, 44, 34, 100, 101, 108, 116, 97,
      34, 58, 123, 34, 115, 116, 111, 112, 95, 114, 101, 97, 115, 111, 110, 34, 58, 34,
      101, 110, 100, 95, 116, 117, 114, 110, 34, 44, 34, 115, 116, 111, 112, 95, 115, 101,
      113, 117, 101, 110, 99, 101, 34, 58, 110, 117, 108, 108, 125, 44, 34, 117, 115, 97,
      103, 101, 34, 58, 123, 34, 105, 110, 112, 117, 116, 95, 116, 111, 107, 101, 110, 115,
      34, 58, 49, 44, 34, 111, 117, 116, 112, 117, 116, 95, 116, 111, 107, 101, 110, 115,
      34, 58, 57, 125, 125>>

\* data: {"type":"message_delta","delta":{"stop_reason":"end_turn","stop_sequence":null},"usage":{"output_tokens":9}}
AnthropicMessageDeltaShort ==
    <<100, 97, 116, 97, 58, 32, 123, 34, 116, 121, 112, 101, 34, 58, 34, 109, 101, 115,
      115, 97, 103, 101, 95, 100, 101, 108, 116, 97, 34, 44, 34, 100, 101, 108, 116, 97,
      34, 58, 123, 34, 115, 116, 111, 112, 95, 114, 101, 97, 115, 111, 110, 34, 58, 34,
      101, 110, 100, 95, 116, 117, 114, 110, 34, 44, 34, 115, 116, 111, 112, 95, 115, 101,
      113, 117, 101, 110, 99, 101, 34, 58, 110, 117, 108, 108, 125, 44, 34, 117, 115, 97,
      103, 101, 34, 58, 123, 34, 111, 117, 116, 112, 117, 116, 95, 116, 111, 107, 101, 110,
      115, 34, 58, 57, 125, 125>>

\* {"model":"","created_at":"","response":"b","done":true}{"model":"","created_at":"","response":"c","done":false}
OllamaTwoObjects ==
    <<123, 34, 109, 111, 100, 101, 108, 34, 58, 34, 34, 44, 34, 99, 114, 101, 97, 116, 101,
      100, 95, 97, 116, 34, 58, 34, 34, 44, 34, 114, 101, 115, 112, 111, 110, 115, 101, 34,
      58, 34, 98, 34, 44, 34, 100, 111, 110, 101, 34, 58, 116, 114, 117, 101, 125, 123, 34,
      109, 111, 100, 101, 108, 34, 58, 34, 34, 44, 34, 99, 114, 101, 97, 116, 101, 100, 95,
      97, 116, 34, 58, 34, 34, 44, 34, 114, 101, 115, 112, 111, 110, 115, 101, 34, 58, 34,
      99, 34, 44, 34, 100, 111, 110, 101, 34, 58, 102, 97, 108, 115, 101, 125>>

\* b'\n'
Newline == <<10>>

\* the lines, each followed by a newline
RECURSIVE Lines(_)
Lines(ls) == IF ls = <<>> THEN <<>> ELSE Head(ls) \o Newline \o Lines(Tail(ls))

\* n copies of a line, each followed by a newline
Repeat(line, n) ==
    LET w == Len(line) + 1
    IN  [i \in 1..(n * w) |-> IF i % w = 0 THEN 10 ELSE line[i % w]]

\* the transport delivers at most MaxChunk bytes per chunk, or all the rest
MaxChunk == 3

\* the lines of a long response: more content frames than the channel holds
LongLines == 102

\* A response body: the provider it is sent to, its bytes, and how the
\* transport cuts it into chunks: chunk = 0 for chunks of any length up to
\* MaxChunk or all the rest, chunk = n > 0 for chunks of n bytes.
Body(provider, bytes, chunk) == [provider |-> provider, bytes |-> bytes, chunk |-> chunk]

\* a frame that does not parse between two content frames, per framing
OpenAIIsolation == Body("openai", Lines(<<OpenAIHi, OpenAIBad, OpenAIHi>>), 0)

AnthropicIsolation == Body("anthropic", Lines(<<AnthropicHi, AnthropicBad, AnthropicHi>>), 0)

OllamaIsolation == Body("ollama", Lines(<<OllamaHi, OllamaBad, OllamaHi>>), 0)

\* an error event between two content frames
AnthropicErrorBody ==
    Body("anthropic", Lines(<<AnthropicHi, AnthropicError, AnthropicHi>>), 0)

\* an error frame, as the provider's error response has it, between two
\* content frames
OpenAIErrorBody ==
    Body("openai", Lines(<<OpenAIHi, OpenAIErrorFrame, OpenAIHi>>), 0)

OllamaErrorBody ==
    Body("ollama", Lines(<<OllamaHi, OllamaErrorFrame, OllamaHi>>), 0)

\* a body that is one line without its newline
UnterminatedBody == Body("ollama", OllamaUnterminated, 0)

\* the Anthropic stream of one text delta and the stop event: with the
\* delta's payload as short as it can be written, and as the chunk type has it
ScenarioABody == Body("anthropic", Lines(<<ScenarioAHi, AnthropicStop>>), 0)

ScenarioAFullBody == Body("anthropic", Lines(<<AnthropicHi, AnthropicStop>>), 0)

\* the Ollama stream of one content line and the done line: with the
\* payloads as short as they can be written, and as the chunk type has them
ScenarioBBody == Body("ollama", Lines(<<ScenarioBHi, ScenarioBDone>>), 0)

ScenarioBFullBody == Body("ollama", Lines(<<OllamaHi, OllamaDone>>), 0)

\* the OpenAI stream of one content event and the [DONE] event, each closed
\* by a blank line: with the payload as short as it can be written, and as
\* the chunk type has it
ScenarioCBody == Body("openai", Lines(<<ScenarioCHi, <<>>, OpenAIDone, <<>>>>), 0)

ScenarioCFullBody == Body("openai", Lines(<<OpenAIHi, <<>>, OpenAIDone, <<>>>>), 0)

\* streams of a frame with an empty fragment, a frame of "Hi", the terminal
\* marker, and one more frame of "Hi" behind the marker
OpenAIEmptyBody == Body("openai", Lines(<<OpenAIEmpty, OpenAIHi, OpenAIDone, OpenAIHi>>), 0)

AnthropicEmptyBody ==
    Body("anthropic", Lines(<<AnthropicEmpty, AnthropicHi, AnthropicStop, AnthropicHi>>), 0)

OllamaEmptyBody == Body("ollama", Lines(<<OllamaEmpty, OllamaHi, OllamaDone, OllamaHi>>), 0)

EmptyBodies == {OpenAIEmptyBody, AnthropicEmptyBody, OllamaEmptyBody}

\* Anthropic streams with event lines, a blank line, a comment and a retry
\* line between frames of "Hi": the first has no event that is named
\* message_stop before the stop frame, the second has one whose name begins
\* with message_stop
AnthropicEventsBody ==
    Body("anthropic",
         Lines(<<EventContentBlockDelta, AnthropicHi, <<>>, SseComment, SseRetry, AnthropicHi,
                 AnthropicEventStop, AnthropicHi>>), 0)

AnthropicStoppedBody ==
    Body("anthropic",
         Lines(<<EventContentBlockDelta, AnthropicHi, <<>>, EventMessageStopped, AnthropicHi,
                 AnthropicEventStop, AnthropicHi>>), 0)

\* an OpenAI stream of lines that begin with "data: " only once trimmed, of
\* lines with other prefixes or none, and of a frame behind the [DONE] line
OpenAIPrefixBody ==
    Body("openai",
         Lines(<<OpenAIIndentedHi, OpenAINoSpace, OpenAIUpper, SseComment, OpenAIBareHi,
                 OpenAIBareDone, OpenAIHiCr, OpenAIIndentedDone, OpenAIHi>>), 0)

\* the events of an Anthropic stream that carry no text
NoContentEvents ==
    <<AnthropicPing, AnthropicMessageStart, AnthropicBlockStart, AnthropicInputJson,
      AnthropicBlockStop, AnthropicMessageDeltaFull, AnthropicMessageDeltaShort>>

\* an Anthropic message: the events without text around two frames of "Hi"
AnthropicHeartbeatBody ==
    Body("anthropic",
         Lines(<<AnthropicMessageStart, AnthropicBlockStart, AnthropicPing, AnthropicHi,
                 AnthropicInputJson, AnthropicBlockStop, AnthropicMessageDeltaFull,
                 AnthropicMessageDeltaShort, AnthropicHi, AnthropicStop>>), 0)

\* an Ollama stream: a content line, an empty line, a line of two objects,
\* the line with content "z" and done = true, and a content line behind it
OllamaLastBody ==
    Body("ollama", Lines(<<OllamaA, <<>>, OllamaTwoObjects, OllamaLast, OllamaA>>), 0)

Inputs ==
    << Body("openai", Lines(<<OpenAIHi, <<>>, OpenAIAccent, OpenAIDone, <<>>>>), 0),
       OpenAIIsolation,
       OpenAIEmptyBody,
       Body("anthropic", Lines(<<AnthropicHi, AnthropicPing, AnthropicAccent, AnthropicStop>>), 0),
       AnthropicIsolation,
       AnthropicErrorBody,
       Body("anthropic", Lines(<<AnthropicPing, AnthropicEventStop, AnthropicHi>>), 0),
       Body("ollama", Lines(<<OllamaHi, OllamaAccent, OllamaDone>>), 0),
       OllamaIsolation,
       Body("ollama", Lines(<<OllamaA, OllamaLast, OllamaA>>), 0),
       Body("ollama", Lines(<<OllamaA \o <<13>>, <<>>>>) \o OllamaAccent, 0),
       OpenAIErrorBody,
       OllamaErrorBody,
       UnterminatedBody,
       ScenarioABody,
       ScenarioAFullBody,
       ScenarioBBody,
       ScenarioBFullBody,
       ScenarioCBody,
       ScenarioCFullBody,
       OpenAIPrefixBody,
       AnthropicEmptyBody,
       AnthropicHeartbeatBody,
       AnthropicEventsBody,
       AnthropicStoppedBody,
       OllamaEmptyBody,
       OllamaLastBody,
       Body("ollama", Repeat(OllamaA, LongLines), Len(OllamaA) + 1) >>

\* the short bodies, cut into chunks at will, and the long one, delivered
\* one line per chunk
ShortInputs == {i \in 1..Len(Inputs) : Inputs[i].chunk = 0}

LongInputs == {i \in 1..Len(Inputs) : Inputs[i].chunk > 0}

(***************************************************************************)
(* The stream: producer task, channel, consumer                            *)
(***************************************************************************)

VARIABLES
    input,       \* the response body (an index of Inputs)
    pos,         \* the bytes of the body the transport has delivered
    cutInChar,   \* some chunk so far ended inside a multi-byte character
    readFailed,  \* byte_stream.next() has yielded Err
    buffer,      \* the task's buffer: Vec<u8>
    start,       \* the task's start index into the buffer (0-based)
    pc,          \* where the task is: "next", "lines", "send", "done"
    pending,     \* the item of the send the task is in
    after,       \* what follows that send: "continue" or "return"
    exit,        \* how the task ended
    chan,        \* the items in the channel
    pushed,      \* every item ever placed on the channel, in order
    txFn,        \* chat_stream still holds the sender tx
    rx,          \* the consumer's stream: "open" or "dropped"
    received,    \* the items the consumer's polls have returned
    sawEnd,      \* a poll has returned None
    stream,      \* gRPC: the results the server stream has yet to deliver
    yielded,     \* gRPC: the items the converted stream has yielded, in order
    streamEnded, \* gRPC: the converted stream has ended
    fnCall,        \* a call of one of the conversion functions: its name and argument
    fnResult,      \* what the call returned
    fnReturned     \* the call has returned

vars ==
    <<input, pos, cutInChar, readFailed, buffer, start, pc, pending, after, exit, chan, pushed,
      txFn, rx, received, sawEnd, stream, yielded, streamEnded, fnCall, fnResult, fnReturned>>

producerVars == <<pos, cutInChar, readFailed, buffer, start, pc, pending, after, exit>>

consumerVars == <<rx, received, sawEnd>>

grpcVars == <<stream, yielded, streamEnded>>

callVars == <<fnCall, fnResult, fnReturned>>

\* no conversion function is being called
NoCall == [fn |-> "none", arg |-> <<>>]

CallsIdle ==
    /\ fnCall = NoCall
    /\ fnResult = <<>>
    /\ fnReturned = TRUE

chatVars == <<input, producerVars, chan, pushed, txFn, consumerVars>>

\* tokio::sync::mpsc::channel(100)
Capacity == 100

NoItem == [ok |-> FALSE, kind |-> "None", text |-> <<>>]

Provider == Inputs[input].provider

Bytes == Inputs[input].bytes

\* the task holds tx_clone until it ends
TxCloneAlive == pc # "done"

\* the senders of the channel that are alive: tx in chat_stream, tx_clone
\* in the task
SendersAlive == (IF txFn THEN 1 ELSE 0) + (IF TxCloneAlive THEN 1 ELSE 0)

InitWith(inputs) ==
    /\ input \in inputs
    /\ pos = 0
    /\ cutInChar = FALSE
    /\ readFailed = FALSE
    /\ buffer = <<>>
    /\ start = 0
    /\ pc = "next"
    /\ pending = NoItem
    /\ after = "continue"
    /\ exit = "running"
    /\ chan = <<>>
    /\ pushed = <<>>
    /\ txFn = TRUE
    /\ rx = "open"
    /\ received = <<>>
    /\ sawEnd = FALSE
    /\ stream = <<>>
    /\ yielded = <<>>
    /\ streamEnded = TRUE
    /\ CallsIdle

Init == InitWith(ShortInputs)

InitLong == InitWith(LongInputs)

\* bodies that end with the framing's terminal marker, bodies that end
\* without one, a body with an error event, and the body whose last line
\* has no newline; the read of any chunk of any of them may fail
PollingInputs ==
    {i \in ShortInputs :
        Inputs[i] \in {ScenarioABody, ScenarioAFullBody, ScenarioBBody, ScenarioBFullBody,
                       ScenarioCBody, ScenarioCFullBody, OpenAIIsolation, AnthropicErrorBody,
                       OllamaIsolation, UnterminatedBody}}

InitPolling == InitWith(PollingInputs)

\* the lengths the next chunk may have when `rest` bytes remain
ChunkLens(rest) ==
    LET n == Inputs[input].chunk
    IN  {k \in 1..rest : IF n = 0 THEN k = rest \/ k <= MaxChunk
                            ELSE k = n \/ (k = rest /\ rest < n)}

\* the task ends: its locals are dropped, the sender with them
Exit(how) ==
    /\ pc' = "done"
    /\ exit' = how
    /\ buffer' = <<>>
    /\ start' = 0
    /\ pending' = NoItem
    /\ after' = "continue"

\* chat_stream returns Ok(stream): its own sender tx is dropped
ChatStreamReturn ==
    /\ txFn
    /\ txFn' = FALSE
    /\ UNCHANGED <<callVars, grpcVars, input, producerVars, chan, pushed, consumerVars>>

\* byte_stream.next() yields Ok(chunk): the chunk is appended to the buffer
ReadChunk ==
    /\ pc = "next"
    /\ \E k \in ChunkLens(Len(Bytes) - pos) :
        /\ buffer' = buffer \o SubSeq(Bytes, pos + 1, pos + k)
        /\ pos' = pos + k
        /\ cutInChar' = (cutInChar \/ IsCont(SafeGet(Bytes, pos + k + 1)))
    /\ start' = 0
    /\ pc' = "lines"
    /\ UNCHANGED <<callVars, grpcVars, input, readFailed, pending, after, exit, chan, pushed, txFn, consumerVars>>

\* ReadError, but the task goes on with the loop after the send
ReadErrorGoesOn ==
    /\ pc = "next"
    /\ readFailed' = TRUE
    /\ pc' = "send"
    /\ pending' = NetworkError
    /\ after' = "continue"
    /\ UNCHANGED <<callVars, grpcVars, input, pos, cutInChar, buffer, start, exit, chan, pushed, txFn, consumerVars>>

\* ReadError, but the task returns without a send
ReadErrorSilent ==
    /\ pc = "next"
    /\ readFailed' = TRUE
    /\ Exit("error")
    /\ UNCHANGED <<callVars, grpcVars, input, pos, cutInChar, chan, pushed, txFn, consumerVars>>

\* byte_stream.next() yields Err(e): the task sends Err(Network) and returns
ReadError ==
    /\ pc = "next"
    /\ readFailed' = TRUE
    /\ pc' = "send"
    /\ pending' = NetworkError
    /\ after' = "return"
    /\ UNCHANGED <<callVars, grpcVars, input, pos, cutInChar, buffer, start, exit, chan, pushed, txFn, consumerVars>>

\* ReadEnd, but the task goes round the loop again at the end of the
\* transport
ReadEndGoesOn ==
    /\ pc = "next"
    /\ pos = Len(Bytes)
    /\ pc' = "lines"
    /\ start' = 0
    /\ UNCHANGED <<callVars, grpcVars, input, pos, cutInChar, readFailed, buffer, pending, after, exit, chan,
                   pushed, txFn, consumerVars>>

\* byte_stream.next() yields None: the loop ends and the sender is dropped
ReadEnd ==
    /\ pc = "next"
    /\ pos = Len(Bytes)
    /\ Exit("eof")
    /\ UNCHANGED <<callVars, grpcVars, input, pos, cutInChar, readFailed, chan, pushed, txFn, consumerVars>>

\* buffer[start..].iter().position(|&b| b == b'\n'): the index in b (from 1)
\* of the first newline at or after index i, 0 when there is none
NewlineFrom(b, i) ==
    IF \A j \in i..Len(b) : b[j] # 10 THEN 0
    ELSE CHOOSE j \in i..Len(b) : b[j] = 10 /\ \A k \in i..(j - 1) : b[k] # 10

\* the text of the line that lies between start and the newline at nl
LineText(b, from, nl) == Trim(FromUtf8Lossy(SubSeq(b, from + 1, nl - 1)))

\* LineEffect, but a line that asks for the return is passed over
LineEffectGoesOn(nl, o) ==
    IF o.act = "send" THEN
        /\ start' = nl
        /\ pc' = "send"
        /\ pending' = o.item
        /\ after' = o.after
        /\ UNCHANGED <<buffer, exit>>
    ELSE
        /\ start' = nl
        /\ UNCHANGED <<buffer, pc, pending, after, exit>>

\* What the line's outcome o does to the task, nl the index of its newline.
LineEffect(nl, o) ==
    IF o.act = "return" THEN Exit("marker")
    ELSE IF o.act = "send" THEN
        /\ start' = nl
        /\ pc' = "send"
        /\ pending' = o.item
        /\ after' = o.after
        /\ UNCHANGED <<buffer, exit>>
    ELSE
        /\ start' = nl
        /\ UNCHANGED <<buffer, pc, pending, after, exit>>

\* LineAt, but without a newline what the buffer holds is decoded and
\* handled as if it were a line
LineAtPartial(nl) ==
    IF nl = 0 THEN
        IF start < Len(buffer)
        THEN LineEffect(Len(buffer),
                HandleLine(Provider, LineText(buffer, start, Len(buffer) + 1)))
        ELSE
            /\ buffer' = <<>>
            /\ start' = 0
            /\ pc' = "next"
            /\ UNCHANGED <<pending, after, exit>>
    ELSE LineEffect(nl, HandleLine(Provider, LineText(buffer, start, nl)))

\* LineAt, but without a newline the processed bytes stay in the buffer
LineAtNoDrain(nl) ==
    IF nl = 0 THEN
        /\ start' = 0
        /\ pc' = "next"
        /\ UNCHANGED <<buffer, pending, after, exit>>
    ELSE LineEffect(nl, HandleLine(Provider, LineText(buffer, start, nl)))

\* One turn of the inner loop, nl the index of the first newline after
\* start (0 for none): without a newline the processed bytes are drained
\* and the task awaits the next chunk; otherwise the line up to the newline
\* is decoded, trimmed and handled.
LineAt(nl) ==
    IF nl = 0 THEN
        /\ buffer' = SubSeq(buffer, start + 1, Len(buffer))
        /\ start' = 0
        /\ pc' = "next"
        /\ UNCHANGED <<pending, after, exit>>
    ELSE LineEffect(nl, HandleLine(Provider, LineText(buffer, start, nl)))

LineStep ==
    /\ pc = "lines"
    /\ LineAt(NewlineFrom(buffer, start + 1))
    /\ UNCHANGED <<callVars, grpcVars, input, pos, cutInChar, readFailed, chan, pushed, txFn, consumerVars>>

\* how the task ends after the send of an item that is followed by return
ExitAfter(item) == IF item.ok THEN "marker" ELSE "error"

\* SendOk, but the send completes whether or not the channel has a free slot
SendOkUnbounded ==
    /\ pc = "send"
    /\ rx = "open"
    /\ chan' = Append(chan, pending)
    /\ pushed' = Append(pushed, pending)
    /\ IF after = "return" THEN Exit(ExitAfter(pending))
       ELSE /\ pc' = "lines"
            /\ pending' = NoItem
            /\ UNCHANGED <<buffer, start, after, exit>>
    /\ UNCHANGED <<callVars, grpcVars, input, pos, cutInChar, readFailed, txFn, consumerVars>>

\* tx_clone.send(item).await completes: the channel has a free slot
SendOk ==
    /\ pc = "send"
    /\ rx = "open"
    /\ Len(chan) < Capacity
    /\ chan' = Append(chan, pending)
    /\ pushed' = Append(pushed, pending)
    /\ IF after = "return" THEN Exit(ExitAfter(pending))
       ELSE /\ pc' = "lines"
            /\ pending' = NoItem
            /\ UNCHANGED <<buffer, start, after, exit>>
    /\ UNCHANGED <<callVars, grpcVars, input, pos, cutInChar, readFailed, txFn, consumerVars>>

\* SendClosed, but the task goes on with the loop after the failed send
SendClosedGoesOn ==
    /\ pc = "send"
    /\ rx = "dropped"
    /\ pc' = "lines"
    /\ pending' = NoItem
    /\ after' = "continue"
    /\ UNCHANGED <<callVars, grpcVars, input, pos, cutInChar, readFailed, buffer, start, exit, chan, pushed, txFn,
                   consumerVars>>

\* SendClosed, but the send goes on waiting for a slot of the closed channel
SendClosedWaits ==
    /\ pc = "send"
    /\ rx = "dropped"
    /\ Len(chan) > Capacity
    /\ Exit(IF pending.ok THEN "receiver_dropped" ELSE "error")
    /\ UNCHANGED <<callVars, grpcVars, input, pos, cutInChar, readFailed, chan, pushed, txFn, consumerVars>>

\* tx_clone.send(item).await fails: the receiver is gone.  The task returns;
\* nobody is told.
SendClosed ==
    /\ pc = "send"
    /\ rx = "dropped"
    /\ Exit(IF pending.ok THEN "receiver_dropped" ELSE "error")
    /\ UNCHANGED <<callVars, grpcVars, input, pos, cutInChar, readFailed, chan, pushed, txFn, consumerVars>>

\* Recv, but the poll returns the newest item of the channel
RecvNewest ==
    /\ ~txFn
    /\ rx = "open"
    /\ chan # <<>>
    /\ received' = Append(received, chan[Len(chan)])
    /\ chan' = SubSeq(chan, 1, Len(chan) - 1)
    /\ UNCHANGED <<callVars, grpcVars, input, producerVars, pushed, txFn, rx, sawEnd>>

\* the consumer polls the stream and gets Some(item)
Recv ==
    /\ ~txFn
    /\ rx = "open"
    /\ chan # <<>>
    /\ received' = Append(received, Head(chan))
    /\ chan' = Tail(chan)
    /\ UNCHANGED <<callVars, grpcVars, input, producerVars, pushed, txFn, rx, sawEnd>>

\* the consumer polls the stream and gets None: the channel is empty and
\* every sender is gone
RecvEnd ==
    /\ ~txFn
    /\ rx = "open"
    /\ chan = <<>>
    /\ ~TxCloneAlive
    /\ ~sawEnd
    /\ sawEnd' = TRUE
    /\ UNCHANGED <<callVars, grpcVars, input, producerVars, chan, pushed, txFn, rx, received>>

\* the consumer drops the stream: the channel is closed and what it holds
\* is dropped
DropHandle ==
    /\ ~txFn
    /\ rx = "open"
    /\ rx' = "dropped"
    /\ chan' = <<>>
    /\ UNCHANGED <<callVars, grpcVars, input, producerVars, pushed, txFn, received, sawEnd>>

Producer == ReadChunk \/ ReadError \/ ReadEnd \/ LineStep \/ SendOk \/ SendClosed

Consumer == Recv \/ RecvEnd \/ DropHandle

Next ==
    \/ ChatStreamReturn
    \/ ReadChunk
    \/ ReadError
    \/ ReadEnd
    \/ LineStep
    \/ SendOk
    \/ SendClosed
    \/ Recv
    \/ RecvEnd
    \/ DropHandle

Spec == Init /\ [][Next]_vars

\* the long response
SpecLong == InitLong /\ [][Next]_vars

\* weak fairness of LineStep, its ENABLED written out: a turn of the inner
\* loop has no guard but pc = "lines", and each turn changes pc or start
LineStepRuns == []<>(pc # "lines") \/ []<><<LineStep>>_vars

\* the runtime runs the spawned task when its send can complete or fail:
\* tokio wakes the task that waits in a send when a slot gets free and
\* when the receiver closes the channel, and runs a task that was woken
SendRuns == WF_vars(SendOk \/ SendClosed)

\* the long response, the task run when its send can go on
SpecLongFair == InitLong /\ [][Next]_vars /\ SendRuns

\* a chat_stream that returns, a transport that delivers its chunks and
\* then ends, a runtime that runs the spawned task whenever it can take a
\* step, and a consumer that polls the stream for as long as it holds it
SpecPolling ==
    /\ InitPolling
    /\ [][Next]_vars
    /\ WF_vars(ChatStreamReturn)
    /\ WF_vars(ReadChunk \/ ReadError \/ ReadEnd)
    /\ LineStepRuns
    /\ SendRuns
    /\ WF_vars(Recv \/ RecvEnd)

(***************************************************************************)
(* What the task pushes for a whole body                                   *)
(***************************************************************************)

RECURSIVE Events(_, _, _)

\* the items of the lines after the line with outcome o, which ends at nl
EventsOf(provider, b, nl, o) ==
    IF o.act = "return" THEN <<>>
    ELSE IF o.act = "send" THEN
        IF o.after = "return" THEN <<o.item>>
        ELSE <<o.item>> \o Events(provider, b, nl)
    ELSE Events(provider, b, nl)

EventsAt(provider, b, from, nl) ==
    IF nl = 0 THEN <<>>
    ELSE EventsOf(provider, b, nl, HandleLine(provider, LineText(b, from, nl)))

\* The items the loop pushes for the body b from index `from` on, when b is
\* in the buffer as a whole: line by line up to the last newline.
Events(provider, b, from) == EventsAt(provider, b, from, NewlineFrom(b, from + 1))

\* per short body, the items of the body delivered as one chunk
Expected == [i \in ShortInputs |-> Events(Inputs[i].provider, Inputs[i].bytes, 0)]

IsPrefix(a, b) == Len(a) <= Len(b) /\ SubSeq(b, 1, Len(a)) = a

Last(seq) == seq[Len(seq)]

\* the items but a final Err(Network), which comes from the transport
WithoutNetwork(seq) ==
    IF seq # <<>> /\ Last(seq) = NetworkError THEN SubSeq(seq, 1, Len(seq) - 1) ELSE seq

(***************************************************************************)
(* The gRPC stream: the server's messages come framed and are converted    *)
(* one by one                                                              *)
(***************************************************************************)

\* GrpcError::InvalidResponse("Missing function in tool call")
InvalidResponse == [ok |-> FALSE, val |-> "Missing function in tool call"]

\* GrpcError::Status(e)
StatusError == [ok |-> FALSE, val |-> "Status"]

convert_proto_tool_call(call) ==
    IF ~call.function.some THEN InvalidResponse
    ELSE Ok([id |-> call.id,
             call_type |-> call.call_type,
             function |-> [name |-> call.function.v.name,
                           arguments |-> call.function.v.arguments]])

\* The tool calls are converted in order and the first error is the result
\* (collect::<Result<Vec<_>, _>>()?); usage, finish_reason and metadata are
\* mapped field by field and cannot fail.
convert_stream_response(response) ==
    LET n == Len(response.tool_calls)
        failed == {i \in 1..n : ~convert_proto_tool_call(response.tool_calls[i]).ok}
    IN  IF n = 0
        THEN Ok([content |-> response.content,
                 is_final |-> response.is_final,
                 tool_calls |-> None])
        ELSE IF failed # {}
        THEN convert_proto_tool_call(
                response.tool_calls[CHOOSE i \in failed : \A j \in failed : i <= j])
        ELSE Ok([content |-> response.content,
                 is_final |-> response.is_final,
                 tool_calls |->
                    Some([i \in 1..n |-> convert_proto_tool_call(response.tool_calls[i]).val])])

\* the item of one result of stream.message()
ConvertResult(result) ==
    IF result.ok THEN convert_stream_response(result.val) ELSE StatusError

\* ProtoToolCall, with and without its function
WeatherCall ==
    [id |-> "call_1", call_type |-> "function",
     function |-> Some([name |-> "get_weather", arguments |-> "{}"])]

NoFunctionCall == [id |-> "call_2", call_type |-> "function", function |-> None]

\* ProtoChatStreamResponse
ProtoResponse(content, is_final, tool_calls) ==
    [content |-> content, is_final |-> is_final, tool_calls |-> tool_calls]

ProtoMessages ==
    { Ok(ProtoResponse("Hi", FALSE, <<>>)),
      Ok(ProtoResponse("", FALSE, <<WeatherCall>>)),
      Ok(ProtoResponse("", FALSE, <<NoFunctionCall>>)),
      Ok(ProtoResponse("", FALSE, <<WeatherCall, NoFunctionCall>>)),
      Ok(ProtoResponse("", TRUE, <<>>)) }

\* the longest server stream
MaxMessages == 3

\* The server streams: messages, and at most one status, which is the last
\* result (tonic's Streaming yields None after it has yielded an Err).
GrpcStreams ==
    LET messages(n) == [1..n -> ProtoMessages]
    IN  UNION {messages(n) : n \in 0..MaxMessages}
        \cup UNION {{Append(m, [ok |-> FALSE, val |-> "Unavailable"]) : m \in messages(n)} :
                        n \in 0..(MaxMessages - 1)}

\* no chat_stream over HTTP is under way
ChatIdle ==
    /\ input = 1
    /\ pos = 0
    /\ cutInChar = FALSE
    /\ readFailed = FALSE
    /\ buffer = <<>>
    /\ start = 0
    /\ pc = "done"
    /\ pending = NoItem
    /\ after = "continue"
    /\ exit = "running"
    /\ chan = <<>>
    /\ pushed = <<>>
    /\ txFn = FALSE
    /\ rx = "dropped"
    /\ received = <<>>
    /\ sawEnd = FALSE

InitGrpc ==
    /\ ChatIdle
    /\ stream \in GrpcStreams
    /\ yielded = <<>>
    /\ streamEnded = FALSE
    /\ CallsIdle

\* stream.message().await.transpose() is Some(result): its item is yielded
\* and the loop goes on
StreamMessage ==
    /\ ~streamEnded
    /\ stream # <<>>
    /\ yielded' = Append(yielded, ConvertResult(Head(stream)))
    /\ stream' = Tail(stream)
    /\ UNCHANGED <<streamEnded, chatVars, callVars>>

\* stream.message().await.transpose() is None: the loop and the stream end
StreamNone ==
    /\ ~streamEnded
    /\ stream = <<>>
    /\ streamEnded' = TRUE
    /\ UNCHANGED <<stream, yielded, chatVars, callVars>>

NextGrpc == StreamMessage \/ StreamNone

SpecGrpc == InitGrpc /\ [][NextGrpc]_vars

(***************************************************************************)
(* The conversion functions: finish reasons, error classification, request *)
(* options                                                                 *)
(***************************************************************************)

\* ferrous_llm_core::types::FinishReason
FinishReason == {"Stop", "Length", "StopSequence", "ToolCalls", "ContentFilter", "Error"}

proto_finish_reason_to_core(reason) ==
    CASE reason = 1 -> "Stop"
      [] reason = 2 -> "Length"
      [] reason = 3 -> "StopSequence"
      [] reason = 4 -> "ToolCalls"
      [] reason = 5 -> "ContentFilter"
      [] reason = 6 -> "Error"
      [] OTHER -> "Stop"

core_finish_reason_to_proto(reason) ==
    CASE reason = "Stop" -> 1
      [] reason = "Length" -> 2
      [] reason = "StopSequence" -> 3
      [] reason = "ToolCalls" -> 4
      [] reason = "ContentFilter" -> 5
      [] reason = "Error" -> 6

\* OpenAIChatResponseWrapper::finish_reason: choices the response's choices,
\* each with its finish_reason: Option<String>
OpenAIFinishReason(choices) ==
    IF choices = <<>> THEN None
    ELSE IF ~choices[1].finish_reason.some THEN None
    ELSE LET reason == choices[1].finish_reason.v
         IN  CASE reason = "stop" -> Some("Stop")
               [] reason = "length" -> Some("Length")
               [] reason = "tool_calls" -> Some("ToolCalls")
               [] reason = "content_filter" -> Some("ContentFilter")
               [] OTHER -> None

\* ferrous-llm-anthropic types.rs, impl ChatResponse for
\* AnthropicMessagesResponseWrapper: finish_reason of the wrapped
\* response's stop_reason: Option<String>
AnthropicMessagesResponseWrapper_finish_reason(stop_reason) ==
    IF ~stop_reason.some THEN None
    ELSE LET reason == stop_reason.v
         IN  CASE reason = "end_turn" -> Some("Stop")
               [] reason = "max_tokens" -> Some("Length")
               [] reason = "stop_sequence" -> Some("Stop")
               [] reason = "tool_use" -> Some("ToolCalls")
               [] OTHER -> None

\* ferrous-llm-anthropic types.rs, impl ChatResponse for
\* AnthropicMessagesResponse: finish_reason of stop_reason: Option<String>
AnthropicMessagesResponse_finish_reason(stop_reason) ==
    IF ~stop_reason.some THEN None
    ELSE LET reason == stop_reason.v
         IN  CASE reason = "end_turn" -> Some("Stop")
               [] reason = "max_tokens" -> Some("Length")
               [] reason = "stop_sequence" -> Some("StopSequence")
               [] reason = "tool_use" -> Some("ToolCalls")
               [] OTHER -> None

\* llm-openai error.rs: OpenAIErrorDetail and OpenAIErrorResponse
OpenAIErrorDetail ==
    TStruct(<<Field("message", TString),
              Field("type", TOption(TString)),
              Field("param", TOption(TString)),
              Field("code", TOption(TString))>>)

OpenAIErrorResponse == TStruct(<<Field("error", OpenAIErrorDetail)>>)

\* an OpenAIError: its variant and the value of its one field
\* (retry_after of RateLimit is None throughout)
OpenAIError(variant, message) == [variant |-> variant, message |-> message]

\* the decimal digits of n, as {status} formats a u16
RECURSIVE Decimal(_)
Decimal(n) == IF n < 10 THEN <<48 + n>> ELSE Decimal(n \div 10) \o <<48 + (n % 10)>>

\* from_error_response, but the status alone decides
from_error_response_by_status(status, response) ==
    LET error == response["error"]
    IN  CASE status = 400 -> OpenAIError("InvalidRequest", error["message"])
          [] status \in {401, 403} -> OpenAIError("Authentication", error["message"])
          [] status = 429 -> OpenAIError("RateLimit", <<>>)
          [] status \in 500..599 -> OpenAIError("ServiceUnavailable", error["message"])
          [] OTHER -> OpenAIError("Other", error["message"])

from_error_response(status, response) ==
    LET error == response["error"]
        error_type == error["type"]
    IN  CASE error_type = Some(Chars("invalid_api_key")) ->
                OpenAIError("Authentication", error["message"])
          [] error_type = Some(Chars("insufficient_quota")) ->
                OpenAIError("InsufficientQuota", error["message"])
          [] error_type = Some(Chars("model_not_found")) ->
                OpenAIError("ModelNotFound", error["message"])
          [] error_type = Some(Chars("rate_limit_exceeded")) -> OpenAIError("RateLimit", <<>>)
          [] error_type = Some(Chars("content_filter")) ->
                OpenAIError("ContentFiltered", error["message"])
          [] OTHER ->
                CASE status = 400 -> OpenAIError("InvalidRequest", error["message"])
                  [] status \in {401, 403} -> OpenAIError("Authentication", error["message"])
                  [] status = 429 -> OpenAIError("RateLimit", <<>>)
                  [] status \in 500..599 -> OpenAIError("ServiceUnavailable", error["message"])
                  [] OTHER -> OpenAIError("Other", error["message"])

\* the fallback of from_response: the body is no OpenAIErrorResponse
FromStatus(status, body) ==
    CASE status = 401 -> OpenAIError("Authentication", Chars("Invalid API key"))
      [] status = 403 -> OpenAIError("Authentication", Chars("Forbidden"))
      [] status = 429 -> OpenAIError("RateLimit", <<>>)
      [] status = 400 -> OpenAIError("InvalidRequest", body)
      [] status = 404 -> OpenAIError("InvalidRequest", Chars("Not found"))
      [] status \in 500..599 ->
            OpenAIError("ServiceUnavailable", Chars("Server error: ") \o Decimal(status))
      [] OTHER -> OpenAIError("Other", Chars("HTTP ") \o Decimal(status) \o Chars(": ") \o body)

\* r the body parsed as OpenAIErrorResponse
FromResponseParsed(status, body, r) ==
    IF r.ok THEN from_error_response(status, r.val) ELSE FromStatus(status, body)

from_response(status, body) ==
    FromResponseParsed(status, body, FromStr(body, OpenAIErrorResponse))

\* Unauthorized
BodyUnauthorized ==
    <<85, 110, 97, 117, 116, 104, 111, 114, 105, 122, 101, 100>>

\* {"message":"busy"}
BodyNoError ==
    <<123, 34, 109, 101, 115, 115, 97, 103, 101, 34, 58, 34, 98, 117, 115, 121, 34, 125>>

\* {"error":{"type":"invalid_api_key"}}
BodyNoMessage ==
    <<123, 34, 101, 114, 114, 111, 114, 34, 58, 123, 34, 116, 121, 112, 101, 34, 58, 34,
      105, 110, 118, 97, 108, 105, 100, 95, 97, 112, 105, 95, 107, 101, 121, 34, 125, 125>>

\* {"error":{"message":"busy"}}
BodyMessage ==
    <<123, 34, 101, 114, 114, 111, 114, 34, 58, 123, 34, 109, 101, 115, 115, 97, 103, 101,
      34, 58, 34, 98, 117, 115, 121, 34, 125, 125>>

\* {"error":{"message":"busy","type":null,"param":null,"code":null}}
BodyNullType ==
    <<123, 34, 101, 114, 114, 111, 114, 34, 58, 123, 34, 109, 101, 115, 115, 97, 103, 101,
      34, 58, 34, 98, 117, 115, 121, 34, 44, 34, 116, 121, 112, 101, 34, 58, 110, 117, 108,
      108, 44, 34, 112, 97, 114, 97, 109, 34, 58, 110, 117, 108, 108, 44, 34, 99, 111, 100,
      101, 34, 58, 110, 117, 108, 108, 125, 125>>

\* {"error":{"message":"busy","type":"server_error"}}
BodyServerError ==
    <<123, 34, 101, 114, 114, 111, 114, 34, 58, 123, 34, 109, 101, 115, 115, 97, 103, 101,
      34, 58, 34, 98, 117, 115, 121, 34, 44, 34, 116, 121, 112, 101, 34, 58, 34, 115, 101,
      114, 118, 101, 114, 95, 101, 114, 114, 111, 114, 34, 125, 125>>

\* {"error": {"message": "Invalid API key", "type": "invalid_api_key"}}
BodyInvalidApiKey ==
    <<123, 34, 101, 114, 114, 111, 114, 34, 58, 32, 123, 34, 109, 101, 115, 115, 97, 103,
      101, 34, 58, 32, 34, 73, 110, 118, 97, 108, 105, 100, 32, 65, 80, 73, 32, 107, 101,
      121, 34, 44, 32, 34, 116, 121, 112, 101, 34, 58, 32, 34, 105, 110, 118, 97, 108, 105,
      100, 95, 97, 112, 105, 95, 107, 101, 121, 34, 125, 125>>

\* {"error":{"message":"busy","type":"insufficient_quota"}}
BodyInsufficientQuota ==
    <<123, 34, 101, 114, 114, 111, 114, 34, 58, 123, 34, 109, 101, 115, 115, 97, 103, 101,
      34, 58, 34, 98, 117, 115, 121, 34, 44, 34, 116, 121, 112, 101, 34, 58, 34, 105, 110,
      115, 117, 102, 102, 105, 99, 105, 101, 110, 116, 95, 113, 117, 111, 116, 97, 34, 125,
      125>>

\* {"error":{"message":"gpt-5","type":"model_not_found"}}
BodyModelNotFound ==
    <<123, 34, 101, 114, 114, 111, 114, 34, 58, 123, 34, 109, 101, 115, 115, 97, 103, 101,
      34, 58, 34, 103, 112, 116, 45, 53, 34, 44, 34, 116, 121, 112, 101, 34, 58, 34, 109,
      111, 100, 101, 108, 95, 110, 111, 116, 95, 102, 111, 117, 110, 100, 34, 125, 125>>

\* {"error":{"message":"busy","type":"rate_limit_exceeded"}}
BodyRateLimit ==
    <<123, 34, 101, 114, 114, 111, 114, 34, 58, 123, 34, 109, 101, 115, 115, 97, 103, 101,
      34, 58, 34, 98, 117, 115, 121, 34, 44, 34, 116, 121, 112, 101, 34, 58, 34, 114, 97,
      116, 101, 95, 108, 105, 109, 105, 116, 95, 101, 120, 99, 101, 101, 100, 101, 100, 34,
      125, 125>>

\* {"error":{"message":"busy","type":"content_filter","code":"content_filter"}}
BodyContentFilter ==
    <<123, 34, 101, 114, 114, 111, 114, 34, 58, 123, 34, 109, 101, 115, 115, 97, 103, 101,
      34, 58, 34, 98, 117, 115, 121, 34, 44, 34, 116, 121, 112, 101, 34, 58, 34, 99, 111,
      110, 116, 101, 110, 116, 95, 102, 105, 108, 116, 101, 114, 34, 44, 34, 99, 111, 100,
      101, 34, 58, 34, 99, 111, 110, 116, 101, 110, 116, 95, 102, 105, 108, 116, 101, 114,
      34, 125, 125>>

\* bodies that are no OpenAIErrorResponse, and bodies that are
PlainBodies == {<<>>, BodyUnauthorized, BodyNoError, BodyNoMessage}

ErrorResponseBodies ==
    {BodyMessage, BodyNullType, BodyServerError, BodyInvalidApiKey, BodyInsufficientQuota,
     BodyModelNotFound, BodyRateLimit, BodyContentFilter}

\* HTTP statuses: those the code names, the ends of its range, and others
Statuses == {0, 200, 302, 399, 400, 401, 402, 403, 404, 418, 428, 429, 430, 499, 500, 503,
             599, 600, 65535}

\* serde_json::Value, as far as the request options need it: numbers are
\* kept as their text
JNull == [k |-> "null"]

JNumber(x) == [k |-> "number", n |-> x]

JString(x) == [k |-> "string", s |-> x]

JArray(x) == [k |-> "array", a |-> x]

JObject(m) == [k |-> "object", m |-> m]

\* json!(x) of an f32: a number, or null when x is not finite
JsonF32(x) == IF x \in {"NaN", "inf", "-inf"} THEN JNull ELSE JNumber(x)

\* json!(x) of a Vec<String>
JsonStrings(x) == JArray([i \in 1..Len(x) |-> JString(x[i])])

\* map.insert(key, value) / map.entry(key), then the assignment
Insert(m, key, value) ==
    [x \in DOMAIN m \cup {key} |-> IF x = key THEN value ELSE m[x]]

\* a panic, and a value returned
Panic == [panic |-> TRUE, val |-> <<>>]

Returned(x) == [panic |-> FALSE, val |-> x]

\* opts[key] = value (serde_json's IndexMut<&str>): null becomes an empty
\* object first, an object gets the entry, any other value panics
IndexAssign(opts, key, value) ==
    IF opts.panic THEN opts
    ELSE IF opts.val.k = "null" THEN Returned(JObject(Insert(<<>>, key, value)))
    ELSE IF opts.val.k = "object" THEN Returned(JObject(Insert(opts.val.m, key, value)))
    ELSE Panic

\* opts[key] = value if the parameter is set
AssignIf(set, opts, key, value) == IF set THEN IndexAssign(opts, key, value) ELSE opts

\* is_some() of the four options, !is_empty() of the stop sequences
HasParameters(parameters) ==
    \/ parameters.temperature.some
    \/ parameters.max_tokens.some
    \/ parameters.top_p.some
    \/ parameters.top_k.some
    \/ parameters.stop_sequences # <<>>

\* the assignments, in the code's order, to the existing value or to a new map
ApplyTo(parameters, opts) ==
    AssignIf(parameters.stop_sequences # <<>>,
        AssignIf(parameters.top_k.some,
            AssignIf(parameters.top_p.some,
                AssignIf(parameters.max_tokens.some,
                    AssignIf(parameters.temperature.some, opts,
                        "temperature", JsonF32(parameters.temperature.v)),
                    "num_predict", JNumber(parameters.max_tokens.v)),
                "top_p", JsonF32(parameters.top_p.v)),
            "top_k", JNumber(parameters.top_k.v)),
        "stop", JsonStrings(parameters.stop_sequences))

\* Some(options), unless an assignment panicked
SomeOptions(options) == IF options.panic THEN Panic ELSE Returned(Some(options.val))

apply_parameters_to_options(parameters, existing_options) ==
    IF ~HasParameters(parameters) THEN Returned(existing_options)
    ELSE IF existing_options.some
    THEN SomeOptions(ApplyTo(parameters, Returned(existing_options.v)))
    ELSE SomeOptions(ApplyTo(parameters, Returned(JObject(<<>>))))

\* ferrous_llm_core::Parameters
ParameterSets ==
    [temperature : {None, Some("0.8"), Some("NaN")},
     max_tokens : {None, Some("150")},
     top_p : {None, Some("0.9")},
     top_k : {None, Some("40")},
     stop_sequences : {<<>>, <<"STOP", "END">>},
     frequency_penalty : {None, Some("0.5")},
     presence_penalty : {None, Some("0.3")}]

\* the options a configuration may hold: none, an object (empty, or with
\* keys the parameters write and keys they do not), null, a string
ExistingOptions ==
    {None,
     Some(JObject(<<>>)),
     Some(JObject([x \in {"temperature", "seed"} |->
                    IF x = "seed" THEN JNumber("42") ELSE JNumber("0.5")])),
     Some(JObject([x \in {"num_ctx", "stop", "top_k", "frequency_penalty"} |->
                    IF x = "stop" THEN JsonStrings(<<"\n">>) ELSE JNumber("1")])),
     Some(JNull),
     Some(JString("fast"))}

\* the proto codes called with: those of the table and some around it,
\* NegProtoCodes of them below 0
NegProtoCodes == 2

MaxProtoCode == 9

ProtoCodes == (0 - NegProtoCodes)..MaxProtoCode

\* finish_reason strings of OpenAI responses, of the table and outside it
OpenAIReasons ==
    {"stop", "length", "tool_calls", "content_filter", "function_call", "STOP", "end_turn", ""}

OpenAIChoices ==
    LET choice == {[finish_reason |-> None]}
                  \cup {[finish_reason |-> Some(r)] : r \in OpenAIReasons}
    IN  {<<>>} \cup {<<c>> : c \in choice} \cup {<<c, d>> : c \in choice, d \in choice}

\* stop_reason values of Anthropic responses: those of the table, others,
\* and none
AnthropicStopReasons ==
    {None} \cup {Some(r) : r \in {"end_turn", "max_tokens", "stop_sequence", "tool_use",
                                   "pause_turn", "refusal", "END_TURN", "stop", ""}}

Calls ==
    {[fn |-> "proto_finish_reason_to_core", arg |-> c] : c \in ProtoCodes}
    \cup {[fn |-> "core_finish_reason_to_proto", arg |-> r] : r \in FinishReason}
    \cup {[fn |-> "OpenAIFinishReason", arg |-> c] : c \in OpenAIChoices}
    \cup {[fn |-> "apply_parameters_to_options",
            arg |-> [parameters |-> p, existing_options |-> e]] :
                p \in ParameterSets, e \in ExistingOptions}
    \cup {[fn |-> "from_response", arg |-> [status |-> st, body |-> b]] :
                st \in Statuses, b \in PlainBodies \cup ErrorResponseBodies}
    \cup {[fn |-> "AnthropicMessagesResponseWrapper::finish_reason", arg |-> r] :
                r \in AnthropicStopReasons}
    \cup {[fn |-> "AnthropicMessagesResponse::finish_reason", arg |-> r] :
                r \in AnthropicStopReasons}

InitCalls ==
    /\ ChatIdle
    /\ stream = <<>>
    /\ yielded = <<>>
    /\ streamEnded = TRUE
    /\ fnCall \in Calls
    /\ fnResult = <<>>
    /\ fnReturned = FALSE

CallProtoFinishReasonToCore ==
    /\ ~fnReturned
    /\ fnCall.fn = "proto_finish_reason_to_core"
    /\ fnResult' = proto_finish_reason_to_core(fnCall.arg)
    /\ fnReturned' = TRUE
    /\ UNCHANGED <<fnCall, chatVars, grpcVars>>

CallCoreFinishReasonToProto ==
    /\ ~fnReturned
    /\ fnCall.fn = "core_finish_reason_to_proto"
    /\ fnResult' = core_finish_reason_to_proto(fnCall.arg)
    /\ fnReturned' = TRUE
    /\ UNCHANGED <<fnCall, chatVars, grpcVars>>

CallOpenAIFinishReason ==
    /\ ~fnReturned
    /\ fnCall.fn = "OpenAIFinishReason"
    /\ fnResult' = OpenAIFinishReason(fnCall.arg)
    /\ fnReturned' = TRUE
    /\ UNCHANGED <<fnCall, chatVars, grpcVars>>

CallFromResponse ==
    /\ ~fnReturned
    /\ fnCall.fn = "from_response"
    /\ fnResult' = from_response(fnCall.arg.status, fnCall.arg.body)
    /\ fnReturned' = TRUE
    /\ UNCHANGED <<fnCall, chatVars, grpcVars>>

CallApplyParametersToOptions ==
    /\ ~fnReturned
    /\ fnCall.fn = "apply_parameters_to_options"
    /\ fnResult' = apply_parameters_to_options(fnCall.arg.parameters, fnCall.arg.existing_options)
    /\ fnReturned' = TRUE
    /\ UNCHANGED <<fnCall, chatVars, grpcVars>>

CallWrapperFinishReason ==
    /\ ~fnReturned
    /\ fnCall.fn = "AnthropicMessagesResponseWrapper::finish_reason"
    /\ fnResult' = AnthropicMessagesResponseWrapper_finish_reason(fnCall.arg)
    /\ fnReturned' = TRUE
    /\ UNCHANGED <<fnCall, chatVars, grpcVars>>

CallResponseFinishReason ==
    /\ ~fnReturned
    /\ fnCall.fn = "AnthropicMessagesResponse::finish_reason"
    /\ fnResult' = AnthropicMessagesResponse_finish_reason(fnCall.arg)
    /\ fnReturned' = TRUE
    /\ UNCHANGED <<fnCall, chatVars, grpcVars>>

NextCalls ==
    \/ CallProtoFinishReasonToCore
    \/ CallCoreFinishReasonToProto
    \/ CallOpenAIFinishReason
    \/ CallFromResponse
    \/ CallApplyParametersToOptions
    \/ CallWrapperFinishReason
    \/ CallResponseFinishReason

SpecCalls == InitCalls /\ [][NextCalls]_vars

(***************************************************************************)
(* Properties                                                              *)
(***************************************************************************)

\* C1: a stream has at most one terminal outcome, an Err item or the end of
\* the stream, and once the consumer has observed it (its last item is an
\* Err, or a poll has returned None) it never observes another item; no Err
\* item is ever followed by an item on the channel.
C1_SingleTerminalOutcome ==
    /\ [](\A i \in 1..Len(pushed) : ~pushed[i].ok => i = Len(pushed))
    /\ [][(sawEnd \/ (received # <<>> /\ ~Last(received).ok)) => received' = received]_vars

\* the consumer has received items, the last of them an Err, and then the end
C1_Witness ==
    /\ sawEnd
    /\ Len(received) >= 2
    /\ ~Last(received).ok
    /\ received[1].ok

\* C2: in every interleaving of task and consumer the received items are a
\* prefix of the pushed ones, the pushed ones are the received ones followed
\* by what the channel holds, the pushed items are the events of the body's
\* frames in the frames' order, and a consumer that polls to the end has
\* received every pushed item.
C2_FifoDelivery ==
    /\ [](/\ IsPrefix(received, pushed)
          /\ rx = "open" => pushed = received \o chan
          /\ sawEnd => received = pushed)
    /\ [][pushed' # pushed => IsPrefix(WithoutNetwork(pushed'), Expected[input])]_vars

\* the consumer has polled to the end of a body with two different events
C2_Witness ==
    /\ sawEnd
    /\ received = Expected[input]
    /\ Len(received) >= 2
    /\ received[1] # received[2]

\* C3: however the transport cuts the body into chunks, a task that ends
\* without a read failure and without a failed send has pushed exactly the
\* items of the body delivered as one chunk.
C3_ChunkBoundaryInvariance ==
    (/\ pc = "done"
     /\ ~readFailed
     /\ exit # "receiver_dropped"
     /\ exit = "error" => rx = "open")
        => pushed = Expected[input]

\* a chunk ended inside a multi-byte character, and the task has pushed the
\* body's items, the character's among them
C3_Witness ==
    /\ cutInChar
    /\ pc = "done"
    /\ exit \in {"eof", "marker"}
    /\ pushed = Expected[input]
    /\ \E i \in 1..Len(pushed) : pushed[i] = OkItem(<<233>>)

\* the bodies with a frame that does not parse between two content frames
IsolationBodies == {OpenAIIsolation, AnthropicIsolation, OllamaIsolation}

\* the items of the two content frames
TwoHi == <<OkItem(<<72, 105>>), OkItem(<<72, 105>>)>>

\* the frame in the middle does not parse as the provider's chunk
MalformedFrames ==
    /\ ~FromStr(AfterPrefix(OpenAIBad, DataPrefix), OpenAIStreamChunk).ok
    /\ ~FromStr(AfterPrefix(AnthropicBad, DataPrefix), AnthropicStreamChunk).ok
    /\ ~FromStr(OllamaBad, OllamaStreamChunk).ok

\* C4: in each framing, a frame that does not parse between two content
\* frames ends nothing: the task pushes the two frames' items in order, only
\* the end of the transport or its failure ends the task, and a consumer
\* that polls to the end receives both items.
C4_SoftFailureIsolation ==
    Inputs[input] \in IsolationBodies =>
        /\ MalformedFrames
        /\ IsPrefix(WithoutNetwork(pushed), TwoHi)
        /\ exit # "marker"
        /\ exit = "error" => readFailed
        /\ (pc = "done" /\ exit = "eof") => pushed = TwoHi
        /\ (sawEnd /\ ~readFailed) => received = TwoHi

\* the consumer has received both items of such a body, and then the end
C4_Witness ==
    /\ Inputs[input] \in IsolationBodies
    /\ sawEnd
    /\ exit = "eof"
    /\ received = TwoHi

\* C5: the channel never holds more than Capacity items and loses none;
\* while it is full the task stays in its send with the item it is to
\* push, and nothing happens to the channel but the consumer taking its
\* first item or dropping the stream; an item is pushed only into a free
\* slot, behind the items the channel holds.
C5_Backpressure ==
    /\ [](Len(chan) <= Capacity)
    /\ [](rx = "open" => pushed = received \o chan)
    /\ [][(pc = "send" /\ rx = "open" /\ Len(chan) = Capacity) =>
            /\ pc' = "send"
            /\ pending' = pending
            /\ pushed' = pushed
            /\ \/ chan' = chan
               \/ chan' = Tail(chan) /\ received' = Append(received, Head(chan))
               \/ rx' = "dropped"]_vars
    /\ [][pushed' # pushed =>
            /\ Len(chan) < Capacity
            /\ pushed' = Append(pushed, pending)
            /\ chan' = Append(chan, pending)]_vars

\* the channel is full again after the consumer has taken one item: the
\* send that waited has completed
C5_Witness ==
    /\ rx = "open"
    /\ Len(received) = 1
    /\ Len(chan) = Capacity
    /\ Len(pushed) = Capacity + 1

\* C6: once the consumer has dropped the stream no item is placed on the
\* channel, the consumer observes nothing more, and the step the task takes
\* from a send is its end.
C6_Cancellation ==
    [][rx = "dropped" =>
        /\ pushed' = pushed
        /\ chan' = chan
        /\ received' = received
        /\ sawEnd' = sawEnd
        /\ (pc = "send" /\ pc' # pc) => pc' = "done"]_vars

\* the consumer dropped the stream after one item, and the task ended in a
\* failed send with input left
C6_Witness ==
    /\ rx = "dropped"
    /\ exit = "receiver_dropped"
    /\ Len(received) = 1
    /\ pushed = received
    /\ pos < Len(Bytes)

\* C7: once the consumer has dropped the stream the task reads no further
\* chunk from the transport.
C7_NoReadAfterDrop == [][rx = "dropped" => pos' = pos]_vars

\* C8: a task in a send when the consumer is gone eventually ends, also
\* when the channel was full and the send was waiting for a slot: the step
\* it takes from that send is its end, with the failed send as the reason
\* and nothing pushed.
C8_NoBlockedSend ==
    /\ (rx = "dropped" /\ pc = "send") ~> (pc = "done")
    /\ [][(rx = "dropped" /\ pc = "send" /\ pc' # pc) =>
            /\ pc' = "done"
            /\ exit' = (IF pending.ok THEN "receiver_dropped" ELSE "error")
            /\ pushed' = pushed]_vars

\* the channel filled up without a poll, the consumer dropped the stream,
\* and the task ended in the failed send of the next item
C8_Witness ==
    /\ rx = "dropped"
    /\ exit = "receiver_dropped"
    /\ received = <<>>
    /\ Len(pushed) = Capacity

\* C9: after a read failure the task is in the send of Err(Network), which
\* is followed by return, or has ended because of the error; nothing but
\* that item is pushed after the failure, whatever the buffer held, and a
\* consumer that holds the stream gets it as the last item.
C9_ReadFailureIsTerminal ==
    /\ [](readFailed =>
            /\ pc \in {"send", "done"}
            /\ pc = "send" => (pending = NetworkError /\ after = "return")
            /\ pc = "done" => exit = "error"
            /\ (pc = "done" /\ rx = "open") => (pushed # <<>> /\ Last(pushed) = NetworkError))
    /\ [][readFailed => (pushed' = pushed \/ pushed' = Append(pushed, NetworkError))]_vars
    /\ [][(pushed # <<>> /\ Last(pushed) = NetworkError) => pushed' = pushed]_vars

\* the read failed with a partial line in the buffer: an item came before
\* Err(Network), which the consumer received last
C9_Witness ==
    /\ readFailed
    /\ pc = "done"
    /\ pos > 0
    /\ Bytes[pos] # 10
    /\ Len(received) >= 2
    /\ Last(received) = NetworkError
    /\ sawEnd

\* the Err item of the error event of AnthropicErrorBody
BusyError == ErrItem("Other", <<98, 117, 115, 121>>)

\* C10: in the Anthropic stream the error event's item, which carries the
\* event's message, is the last item pushed: with it the task has ended, and
\* the frame after the error event yields nothing, be it in the same chunk
\* or in a later one.
C10_ErrorEventIsTerminal ==
    /\ \A i \in 1..Len(pushed) :
        (Provider = "anthropic" /\ pushed[i].kind = "Other") =>
            (i = Len(pushed) /\ pc = "done" /\ exit = "error")
    /\ Inputs[input] = AnthropicErrorBody =>
        /\ WithoutNetwork(pushed) \in {<<>>, <<OkItem(<<72, 105>>)>>,
                                       <<OkItem(<<72, 105>>), BusyError>>}
        /\ exit \notin {"eof", "marker"}
        /\ (pc = "done" /\ ~readFailed /\ rx = "open") => Last(pushed) = BusyError

\* the whole body was delivered, the frame after the error event with it,
\* and the consumer received the error item last, then the end
C10_Witness ==
    /\ Inputs[input] = AnthropicErrorBody
    /\ pos = Len(Bytes)
    /\ sawEnd
    /\ received = <<OkItem(<<72, 105>>), BusyError>>

\* the bodies with an explicit error frame between two content frames
ErrorBodies == {OpenAIErrorBody, AnthropicErrorBody, OllamaErrorBody}

\* C11: in each of the three framings, a consumer that polls to the end of a
\* body with an explicit error frame, the transport not failing, has received
\* the item of the frame before it and then, as the last item, an Err that
\* carries the frame's message (BusyError: the provider's error with nothing
\* but a message); the error frame is not skipped.
C11_ProviderErrorSurfaced ==
    (Inputs[input] \in ErrorBodies /\ sawEnd /\ ~readFailed) =>
        received = <<OkItem(<<72, 105>>), BusyError>>

\* the maximum the buffer is to hold of a line that does not end
MaxLineBytes == 16

\* C12: while the transport delivers a line that never ends, the buffer never
\* holds more than the maximum, and once more than the maximum has been
\* delivered the task is in the send of an Err of kind ResourceExhausted or
\* has ended with it as the last item pushed (or in the failed send of it).
C12_BufferOverflowIsTerminal ==
    Inputs[input] = UnterminatedBody =>
        /\ Len(buffer) <= MaxLineBytes
        /\ (pos > MaxLineBytes /\ ~readFailed) =>
            \/ pc = "send" /\ pending.kind = "ResourceExhausted"
            \/ pc = "done" /\ rx = "dropped"
            \/ pc = "done" /\ pushed # <<>> /\ Last(pushed).kind = "ResourceExhausted"

\* C13: when the transport ends without error and the task ends with it,
\* no byte is left in the buffer that was not handed on as part of a line:
\* the bytes behind the last newline have been handled too.
C13_NoByteDropped ==
    [][(pc = "next" /\ pc' = "done" /\ exit' = "eof") => buffer = <<>>]_vars

\* the item of a content frame with the text "Hi"
Hi == OkItem(<<72, 105>>)

\* C14 as the scenario has it: a consumer that polls to the end of the two
\* lines with only the fields shown has received the item of "Hi".
C14_ScenarioA ==
    (Inputs[input] = ScenarioABody /\ sawEnd /\ ~readFailed) => received = <<Hi>>

\* C15 as the scenario has it: a consumer that polls to the end of the two
\* lines with only the fields shown has received the item of "Hi", and the
\* done flag has ended the stream.
C15_ScenarioB ==
    (Inputs[input] = ScenarioBBody /\ sawEnd /\ ~readFailed) =>
        (received = <<Hi>> /\ exit = "marker")

\* C16 as the scenario has it: a consumer that polls to the end of the two
\* events with only the fields shown has received the item of "Hi".
C16_ScenarioC ==
    (Inputs[input] = ScenarioCBody /\ sawEnd /\ ~readFailed) => received = <<Hi>>

\* C17: no item that the task pushes, holds ready to push, or that is in
\* the channel is a content delta with empty text; a frame whose fragment is
\* empty makes the task push nothing and go on with the next line, so that
\* the frame of "Hi" behind it is pushed; the Ollama line with empty content
\* and the done flag pushes nothing and ends the stream.
C17_EmptyDeltasSuppressed ==
    /\ \A i \in 1..Len(pushed) : pushed[i].ok => pushed[i].text # <<>>
    /\ \A i \in 1..Len(chan) : chan[i].ok => chan[i].text # <<>>
    /\ (pc = "send" /\ pending.ok) => pending.text # <<>>
    /\ Inputs[input] \in EmptyBodies =>
        /\ IsPrefix(WithoutNetwork(pushed), <<Hi>>)
        /\ (pc = "done" /\ ~readFailed /\ exit # "receiver_dropped") =>
                (exit = "marker" /\ pushed = <<Hi>>)

\* the frame with the empty fragment has been passed and the stream has
\* gone on to deliver "Hi" and to end at the marker
C17_Witness ==
    /\ Inputs[input] \in EmptyBodies
    /\ exit = "marker"
    /\ sawEnd
    /\ received = <<Hi>>

\* C18: once the task has ended it stays ended: it reads no chunk, handles
\* no line, pushes nothing, and the channel only loses items to the
\* consumer; an Err item pushed means the task has ended; and of a body with
\* a frame of "Hi" behind the terminal marker or the error event, in the
\* same chunk or a later one, that frame's item is never pushed.
C18_TerminalIsAbsorbing ==
    /\ [](/\ \A i \in 1..Len(pushed) : ~pushed[i].ok => pc = "done"
          /\ Inputs[input] \in EmptyBodies => IsPrefix(WithoutNetwork(pushed), <<Hi>>)
          /\ Inputs[input] = AnthropicErrorBody =>
                IsPrefix(WithoutNetwork(pushed), <<Hi, BusyError>>))
    /\ [][pc = "done" =>
            /\ pc' = "done"
            /\ exit' = exit
            /\ pos' = pos
            /\ buffer' = <<>>
            /\ pushed' = pushed
            /\ \E k \in 0..Len(chan) : chan' = SubSeq(chan, k + 1, Len(chan))]_vars

\* the whole body came in one chunk, the frame of "Hi" behind the marker
\* with it; the task ended at the marker and the consumer received the one
\* item before it, then the end
C18_Witness ==
    /\ Inputs[input] \in EmptyBodies
    /\ buffer = <<>>
    /\ pos = Len(Bytes)
    /\ exit = "marker"
    /\ sawEnd
    /\ received = <<Hi>>

\* C19: every Err item pushed is the last item pushed, and it is either the
\* item of a failed read of the transport or the item of the error event of
\* AnthropicErrorBody: no other line, malformed or of a shape the task does
\* not know, yields an Err item; an Err item the consumer receives is the
\* last item it receives.
C19_OnlyTerminalErrorsDelivered ==
    /\ \A i \in 1..Len(pushed) :
        ~pushed[i].ok =>
            /\ i = Len(pushed)
            /\ \/ pushed[i] = NetworkError /\ readFailed
               \/ pushed[i] = BusyError /\ Inputs[input] = AnthropicErrorBody
    /\ \A i \in 1..Len(received) : ~received[i].ok => i = Len(received)

\* of a body with a malformed frame between two frames of "Hi" the consumer
\* received both items, then the item of the failed read, then the end
C19_Witness ==
    /\ Inputs[input] \in IsolationBodies
    /\ readFailed
    /\ sawEnd
    /\ received = <<Hi, Hi, NetworkError>>

\* C20: an Err item that the converted gRPC stream has yielded, be it of a
\* status of the server stream or of a message that did not convert, is the
\* last item it has yielded.
C20_GrpcErrIsLast ==
    \A i \in 1..Len(yielded) : ~yielded[i].ok => i = Len(yielded)

\* the codes of the gRPC table and the strings of the OpenAI table
ProtoTable == 1..6

OpenAITable == {"stop", "length", "tool_calls", "content_filter"}

\* C21: the codes of each table map to reasons of their own, one reason per
\* code, and a code outside the table maps to a fallback that is none of
\* the table's reasons.
C21_FinishReasonTable ==
    /\ (fnReturned /\ fnCall.fn = "proto_finish_reason_to_core") =>
        /\ fnCall.arg \in ProtoTable =>
            /\ fnResult \in FinishReason
            /\ core_finish_reason_to_proto(fnResult) = fnCall.arg
        /\ fnCall.arg \notin ProtoTable =>
            fnResult \notin {proto_finish_reason_to_core(c) : c \in ProtoTable}
    /\ (fnReturned /\ fnCall.fn = "OpenAIFinishReason" /\ fnCall.arg # <<>>
            /\ fnCall.arg[1].finish_reason.some) =>
        /\ fnCall.arg[1].finish_reason.v \notin OpenAITable => fnResult = None
        /\ fnCall.arg[1].finish_reason.v \in OpenAITable =>
            /\ fnResult.some
            /\ \A r \in OpenAITable \ {fnCall.arg[1].finish_reason.v} :
                    OpenAIFinishReason(<<[finish_reason |-> Some(r)]>>) # fnResult

\* the variant the status stands for when the body decides nothing
StatusVariant(status) ==
    IF status \in {401, 403} THEN "Authentication"
    ELSE IF status = 429 THEN "RateLimit"
    ELSE IF status \in {400, 404} THEN "InvalidRequest"
    ELSE IF status >= 500 /\ status <= 599 THEN "ServiceUnavailable"
    ELSE "Other"

\* C22: from_response of a body that is no error JSON gives the variant of
\* the status: Authentication for 401 and 403, RateLimit for 429,
\* InvalidRequest for 400 and 404, ServiceUnavailable for 500..=599, Other
\* for the rest; of an error JSON with a type the code knows, the variant of
\* the type whatever the status, Authentication for invalid_api_key.
C22_FromResponse ==
    (fnReturned /\ fnCall.fn = "from_response") =>
        /\ fnCall.arg.body \in PlainBodies =>
            fnResult.variant = StatusVariant(fnCall.arg.status)
        /\ fnCall.arg.body = BodyInvalidApiKey => fnResult.variant = "Authentication"
        /\ fnCall.arg.body = BodyInsufficientQuota => fnResult.variant = "InsufficientQuota"
        /\ fnCall.arg.body = BodyModelNotFound => fnResult.variant = "ModelNotFound"
        /\ fnCall.arg.body = BodyRateLimit => fnResult.variant = "RateLimit"
        /\ fnCall.arg.body = BodyContentFilter => fnResult.variant = "ContentFiltered"

\* the error JSON of an invalid API key came with a status of the server
\* errors and was classified by its type
C22_Witness ==
    /\ fnReturned
    /\ fnCall.fn = "from_response"
    /\ fnCall.arg = [status |-> 503, body |-> BodyInvalidApiKey]
    /\ fnResult = OpenAIError("Authentication", Chars("Invalid API key"))

\* the keys of the parameters that are set, and the value each is to have
SetKeys(p) ==
    {x \in {"temperature", "num_predict", "top_p", "top_k", "stop"} :
        CASE x = "temperature" -> p.temperature.some
          [] x = "num_predict" -> p.max_tokens.some
          [] x = "top_p" -> p.top_p.some
          [] x = "top_k" -> p.top_k.some
          [] x = "stop" -> p.stop_sequences # <<>>}

\* the keys of the options e: those of the object, none otherwise
KeysOf(e) == IF e.some /\ e.v.k = "object" THEN DOMAIN e.v.m ELSE {}

\* r is the options e with the keys of the set parameters of p written
Merged(p, e, r) ==
    IF SetKeys(p) = {} THEN r = e
    ELSE /\ r.some
         /\ r.v.k = "object"
         /\ DOMAIN r.v.m = KeysOf(e) \cup SetKeys(p)
         /\ \A x \in KeysOf(e) \ SetKeys(p) : r.v.m[x] = e.v.m[x]
         /\ p.max_tokens.some => r.v.m["num_predict"] = JNumber(p.max_tokens.v)
         /\ p.top_k.some => r.v.m["top_k"] = JNumber(p.top_k.v)
         /\ p.stop_sequences # <<>> => r.v.m["stop"] = JsonStrings(p.stop_sequences)
         /\ p.temperature.some => r.v.m["temperature"].k \in {"number", "null"}
         /\ p.top_p.some => r.v.m["top_p"].k \in {"number", "null"}

\* C23: apply_parameters_to_options returns, and what it returns is the
\* existing options with exactly the keys of the set parameters written:
\* unchanged when none is set, every other key as it was, no key added for
\* a parameter that is not set or not supported.
C23_ApplyParameters ==
    (fnReturned /\ fnCall.fn = "apply_parameters_to_options") =>
        /\ ~fnResult.panic
        /\ Merged(fnCall.arg.parameters, fnCall.arg.existing_options, fnResult.val)

\* the index of the last newline among the first p bytes of the body, 0 for none
LastNewline(p) ==
    IF \A i \in 1..p : Bytes[i] # 10 THEN 0
    ELSE CHOOSE i \in 1..p : Bytes[i] = 10 /\ \A j \in (i + 1)..p : Bytes[j] # 10

\* b is a with bytes appended, or a with bytes drained from the front
Appended(a, b) == Len(a) <= Len(b) /\ SubSeq(b, 1, Len(a)) = a

Drained(a, b) == Len(b) <= Len(a) /\ SubSeq(a, Len(a) - Len(b) + 1, Len(a)) = b

\* C24: when the task is done with a chunk and awaits the next, the buffer
\* holds exactly the bytes received after the last newline received, and so
\* no newline; while it works on a chunk, the buffer holds the bytes
\* received from just after a newline (or the start of the body) to the last
\* byte received, and the bytes before start are whole lines; the buffer
\* changes only by bytes appended at the back or drained from the front;
\* and each line handled begins just after the line before it and ends at
\* the first newline after that, so that the lines, each with its newline,
\* and then the buffer make up the bytes received, each byte in one line.
C24_FrameBufferInvariant ==
    /\ [](pc = "next" =>
            /\ buffer = SubSeq(Bytes, LastNewline(pos) + 1, pos)
            /\ \A i \in 1..Len(buffer) : buffer[i] # 10
            /\ start = 0)
    /\ [](pc \in {"lines", "send"} =>
            /\ Len(buffer) <= pos
            /\ buffer = SubSeq(Bytes, pos - Len(buffer) + 1, pos)
            /\ pos = Len(buffer) \/ Bytes[pos - Len(buffer)] = 10
            /\ start \in 0..Len(buffer)
            /\ start = 0 \/ buffer[start] = 10)
    /\ [][Appended(buffer, buffer') \/ Drained(buffer, buffer')]_vars
    /\ [][(pc = "lines" /\ start' # start /\ pc' # "done" /\ pc' # "next") =>
            /\ buffer' = buffer
            /\ start' > start
            /\ buffer[start'] = 10
            /\ \A i \in (start + 1)..(start' - 1) : buffer[i] # 10]_vars

\* the task awaits the next chunk with the begin of a line in the buffer,
\* after a line of an earlier chunk was handled and its item pushed
C24_Witness ==
    /\ pc = "next"
    /\ buffer # <<>>
    /\ Len(buffer) < pos
    /\ pushed = <<Hi>>

\* C25: of the two Anthropic streams with two frames of "Hi" before the
\* line "event: message_stop" and one behind it, the other lines being an
\* event line of another name, a blank line, a comment and a retry line,
\* the task pushes the two items before that line and ends there.
C25_EventLines ==
    Inputs[input] \in {AnthropicEventsBody, AnthropicStoppedBody} =>
        /\ IsPrefix(WithoutNetwork(pushed), <<Hi, Hi>>)
        /\ (pc = "done" /\ ~readFailed /\ exit # "receiver_dropped") =>
                (exit = "marker" /\ pushed = <<Hi, Hi>>)

\* the task takes a line from the buffer in this step
TakesLine ==
    /\ pc = "lines"
    /\ NewlineFrom(buffer, start + 1) # 0
    /\ pc' # pc \/ start' # start

\* the bytes of that line as received
RawLine == SubSeq(buffer, start + 1, NewlineFrom(buffer, start + 1) - 1)

\* the step leaves the stream as it is and goes on to the next line
Ignored ==
    /\ pc' = "lines"
    /\ UNCHANGED <<pending, after, exit, chan, pushed>>

\* C26 with the line as received: an OpenAI line whose bytes do not begin
\* with "data: " is ignored.
C26_DataLinesAsReceived ==
    [][(Provider = "openai" /\ TakesLine /\ ~StartsWith(RawLine, DataPrefix)) => Ignored]_vars

\* what C26 asks of a step that takes the line `line` (decoded and trimmed)
DataLineStep(line) ==
    IF ~StartsWith(line, DataPrefix) THEN Ignored
    ELSE IF AfterPrefix(line, DataPrefix) = DoneSentinel
    THEN pc' = "done" /\ exit' = "marker" /\ UNCHANGED <<chan, pushed>>
    ELSE /\ pc' \in {"lines", "send"}
         /\ pc' = "send" => (pending'.ok /\ after' = "continue")
         /\ UNCHANGED <<exit, chan, pushed>>

\* C26: an OpenAI line is a payload if and only if the line, decoded and
\* trimmed of the whitespace around it, begins with "data: "; the payload
\* [DONE] ends the stream and no other payload does; every other line is
\* ignored: the channel and the state of the stream stay as they are.
C26_DataLines ==
    [][(Provider = "openai" /\ TakesLine) =>
            DataLineStep(LineText(buffer, start, NewlineFrom(buffer, start + 1)))]_vars

\* the indented content line and the one with a carriage return were taken
\* as payloads, the lines between them ignored, and the indented [DONE]
\* line ended the stream
C26_Witness ==
    /\ Inputs[input] = OpenAIPrefixBody
    /\ exit = "marker"
    /\ sawEnd
    /\ received = <<Hi, Hi>>

\* the variant the event line parses as, "" when it does not parse
VariantOfParsed(r) == IF r.ok THEN r.val.variant ELSE ""

VariantOf(line) ==
    VariantOfParsed(FromStr(AfterPrefix(line, DataPrefix), AnthropicStreamChunk))

\* C27: each of the ping, message_start, content_block_start,
\* content_block_stop, message_delta and input_json_delta events makes the
\* task push nothing and go on; of the message in which they surround two
\* frames of "Hi", the task pushes the two items and nothing else and ends
\* at the stop event.  (Each parses as the variant of its name but the
\* message_delta whose usage has no input_tokens, which does not parse.)
C27_HeartbeatsDropped ==
    Inputs[input] = AnthropicHeartbeatBody =>
        /\ IsPrefix(WithoutNetwork(pushed), <<Hi, Hi>>)
        /\ (pc = "done" /\ ~readFailed /\ exit # "receiver_dropped") =>
                (exit = "marker" /\ pushed = <<Hi, Hi>>)
        /\ (pc = "done" /\ exit = "marker") =>
            /\ \A i \in 1..Len(NoContentEvents) : AnthropicLine(NoContentEvents[i]) = Skip
            /\ [i \in 1..Len(NoContentEvents) |-> VariantOf(NoContentEvents[i])] =
                    <<"ping", "message_start", "content_block_start", "content_block_delta",
                      "content_block_stop", "message_delta", "">>

\* the consumer received the two items of the message, the events without
\* text between them dropped, and then the end
C27_Witness ==
    /\ Inputs[input] = AnthropicHeartbeatBody
    /\ exit = "marker"
    /\ sawEnd
    /\ received = <<Hi, Hi>>

\* The lines of the Ollama bodies (their bytes), and what each is: a chunk or not (a cut
\* object, an error frame, two objects on one line, the scenario's lines
\* without the chunk's required fields, an empty line), its done flag and
\* its content.
OllamaLines ==
    << [line |-> OllamaHi, chunk |-> TRUE, done |-> FALSE, content |-> <<72, 105>>],
       [line |-> OllamaAccent, chunk |-> TRUE, done |-> FALSE, content |-> <<233>>],
       [line |-> OllamaA, chunk |-> TRUE, done |-> FALSE, content |-> <<97>>],
       [line |-> OllamaEmpty, chunk |-> TRUE, done |-> FALSE, content |-> <<>>],
       [line |-> OllamaDone, chunk |-> TRUE, done |-> TRUE, content |-> <<>>],
       [line |-> OllamaLast, chunk |-> TRUE, done |-> TRUE, content |-> <<122>>],
       [line |-> OllamaBad, chunk |-> FALSE, done |-> FALSE, content |-> <<>>],
       [line |-> OllamaErrorFrame, chunk |-> FALSE, done |-> FALSE, content |-> <<>>],
       [line |-> OllamaTwoObjects, chunk |-> FALSE, done |-> TRUE, content |-> <<98>>],
       [line |-> ScenarioBHi, chunk |-> FALSE, done |-> FALSE, content |-> <<72, 105>>],
       [line |-> ScenarioBDone, chunk |-> FALSE, done |-> TRUE, content |-> <<>>],
       [line |-> <<>>, chunk |-> FALSE, done |-> FALSE, content |-> <<>>] >>

\* what C28 asks of a step that takes the line e of OllamaLines: a chunk
\* with content has it sent, and the send of a chunk with done = true is
\* followed by the return; a chunk with done = true and no content ends
\* the task at once; a chunk with done = false and no content, and a line
\* that is no chunk, are ignored
DoneFlagStep(e) ==
    IF ~e.chunk THEN Ignored
    ELSE IF e.content # <<>>
    THEN /\ pc' = "send"
         /\ pending' = OkItem(e.content)
         /\ after' = (IF e.done THEN "return" ELSE "continue")
         /\ UNCHANGED <<exit, chan, pushed>>
    ELSE IF e.done
    THEN pc' = "done" /\ exit' = "marker" /\ UNCHANGED <<chan, pushed>>
    ELSE Ignored

\* the items of the lines with the content "a" and "z"
ItemA == OkItem(<<97>>)

ItemZ == OkItem(<<122>>)

\* C28: an Ollama line that is one whole chunk with done = true ends the
\* stream, after its content, if it has any, was pushed as the last item;
\* a chunk with done = false does not end it; a line of two objects is no
\* chunk and is ignored; a send that is followed by the return is
\* followed by the task's end; of the stream a, (empty), (two objects),
\* z with done, a the task pushes the items of a and z and nothing else.
C28_DoneFlag ==
    /\ [][(Provider = "ollama" /\ TakesLine) =>
            \E i \in 1..Len(OllamaLines) :
                /\ FromUtf8Lossy(OllamaLines[i].line) =
                        LineText(buffer, start, NewlineFrom(buffer, start + 1))
                /\ DoneFlagStep(OllamaLines[i])]_vars
    /\ [][(pc = "send" /\ after = "return" /\ pushed' # pushed) => pc' = "done"]_vars
    /\ [](Inputs[input] = OllamaLastBody =>
            /\ IsPrefix(WithoutNetwork(pushed), <<ItemA, ItemZ>>)
            /\ (pc = "done" /\ ~readFailed /\ exit # "receiver_dropped") =>
                    (exit = "marker" /\ pushed = <<ItemA, ItemZ>>))

\* the content of the line with done = true was the last item the consumer
\* received before the end; the line behind it yielded nothing
C28_Witness ==
    /\ Inputs[input] = OllamaLastBody
    /\ pos = Len(Bytes)
    /\ exit = "marker"
    /\ sawEnd
    /\ received = <<ItemA, ItemZ>>

\* C29: the producer task eventually exits; a sender that was dropped does
\* not come back, and from some moment on none is alive (chat_stream has
\* returned and the task has exited); a poll returns the end of the stream
\* only when no sender is alive and every item pushed was received; a
\* consumer that keeps the stream and polls it eventually observes that end.
C29_StreamEnds ==
    /\ <>(pc = "done")
    /\ [][SendersAlive' <= SendersAlive]_vars
    /\ <>[](SendersAlive = 0)
    /\ [](sawEnd => (SendersAlive = 0 /\ received = pushed))
    /\ <>(rx = "dropped" \/ (sawEnd /\ received = pushed))

\* a body with no terminal marker was read to its end, the task exited and
\* the consumer saw the end after the two items that were pushed
C29_Witness ==
    /\ exit = "eof"
    /\ pc = "done"
    /\ SendersAlive = 0
    /\ rx = "open"
    /\ sawEnd
    /\ Len(pushed) >= 2
    /\ received = pushed

\* C30: for every stop_reason, each of the two finish_reason
\* implementations returns what the other returns for it, and for
\* stop_sequence that is the stop-sequence reason.
C30_FinishReasonsAgree ==
    /\ (fnReturned /\ fnCall.fn = "AnthropicMessagesResponseWrapper::finish_reason") =>
        /\ fnResult = AnthropicMessagesResponse_finish_reason(fnCall.arg)
        /\ fnCall.arg = Some("stop_sequence") => fnResult = Some("StopSequence")
    /\ (fnReturned /\ fnCall.fn = "AnthropicMessagesResponse::finish_reason") =>
        /\ fnResult = AnthropicMessagesResponseWrapper_finish_reason(fnCall.arg)
        /\ fnCall.arg = Some("stop_sequence") => fnResult = Some("StopSequence")

====
